---- MODULE Spec2Model ----
(***************************************************************************)
(* Model of the request-admission pipeline of mao.mock.service.js: the     *)
(* per-IP rate limiter, the outage scheduler, the normal-period scheduler, *)
(* the circuit breaker, error injection, the artificial delay and the      *)
(* endpoint dispatch of the helloHttp handler.                             *)
(*                                                                         *)
(* Time is the variable now (Date.now()); it advances by Tick.  A handler  *)
(* runs synchronously up to its only await (addDelay) and is resumed in a  *)
(* later step: when no delay was drawn the continuation is a microtask,    *)
(* which runs once the macrotask that delivered the request has handed     *)
(* over its other requests, in the order of the awaits and before time     *)
(* passes or a timer fires; otherwise it is resumed by the timer.          *)
(* Math.random() draws are inputs of the actions, in units of 1/10000.     *)
(*                                                                         *)
(* The durations and thresholds of config are scaled down to a few clock   *)
(* ticks (their order relations are kept), so that every window can open   *)
(* and elapse within the explored horizon.  null is modelled as 0: every   *)
(* test of a nullable field in the source is a truthiness test.            *)
(***************************************************************************)
EXTENDS Integers, Sequences, FiniteSets, TLC

\* ---------------------------------------------------------------- bounds
\* Horizon of the clock, number of requests, suspended handlers.
MaxTime == 2
MaxRequests == 2
MaxPending == 1

\* config, durations and thresholds (scaled)
minOutageDuration == 1
maxOutageDuration == 2
minSlowDelay == 1
maxSlowDelay == 1
minNormalPeriod == 1
maxNormalPeriod == 3
circuitBreakerThreshold == 2
circuitBreakerWindow == 6
circuitBreakerRecovery == 2
rateLimitWindowMs == 2
rateLimitMax == 3

\* config, the values kept as in the source (probabilities in 1/10000)
baseSuccessRate == 9500
outageChance == 1
slowResponseChance == 1500
normalPeriodChance == 20
serverErrorChance == 100
clientErrorChance == 50
timeoutChance == 20
circuitBreakerHalfOpenRequests == 2

\* ---------------------------------------------------------------- inputs
Clients == {"ip1", "ip2"}

\* Math.random() values on both sides of every threshold they are compared to
OutageDraws == {0, 1}
SlowDraws == {1499, 1500}
NormalDraws == {19, 20}
ErrorDraws == {99, 149, 169, 170}
DropDraws == {9500, 9501}
\* where the handler meets an exception: nowhere; in the endpoint, before it
\* has assigned anything (a read of req after recordSuccess()); at the
\* res.status(..).json(..) that sends the answer of the step, after everything
\* assigned before it ("send": that call alone throws; "res": every call of res
\* throws, the one of the catch block included)
Faulty == {"none", "endpoint", "send", "res"}
\* Math.random() * (max - min) + min is a real number d of [min, max) (min itself
\* when max = min); on the whole ticks of the clock it acts as a whole number:
\* now < start + d and now >= start + d (outage), and a timer set for d (delay),
\* as its ceiling, in min .. max; now - start > d (normal period) as its floor,
\* in min .. max - 1
OutageDurations == minOutageDuration .. maxOutageDuration
SlowDelays == minSlowDelay .. maxSlowDelay
NormalDurations == minNormalPeriod .. (maxNormalPeriod - 1)

\* request descriptors: method, req.url, whether req.body.name / req.query.name is set
Req(m, u, bn, qn) == [method |-> m, url |-> u, bodyName |-> bn, queryName |-> qn]
GetHealth == Req("GET", "/health", FALSE, FALSE)
GetHelloName == Req("GET", "/?name=X", FALSE, TRUE)
GetHealthQuery == Req("GET", "/health?x=1", FALSE, FALSE)
PostRootName == Req("POST", "/", TRUE, FALSE)
PostHelloName == Req("POST", "/hello", TRUE, FALSE)
PostHelloNoName == Req("POST", "/hello", FALSE, FALSE)
PostReset == Req("POST", "/reset-circuit-breaker", FALSE, FALSE)
PutItems == Req("PUT", "/items", FALSE, FALSE)
Options == Req("OPTIONS", "/", FALSE, FALSE)
Shapes == { GetHealth, GetHelloName, GetHealthQuery, PostRootName, PostHelloName,
            PostHelloNoName, PostReset, PutItems, Options }
Requests == { [method |-> s.method, url |-> s.url, bodyName |-> s.bodyName,
               queryName |-> s.queryName, ip |-> c] : s \in Shapes, c \in Clients }
NoRequest == [method |-> "none", url |-> "none", bodyName |-> FALSE,
              queryName |-> FALSE, ip |-> "none"]

\* ---------------------------------------------------------------- state
VARIABLES
  now,                      \* Date.now()
  serviceState,             \* the serviceState object
  rateLimitMap,             \* ip -> {count, start}; NoEntry when absent
  errorWindow,              \* timestamps of recorded errors
  circuitBreakerState,      \* "CLOSED", "OPEN", "HALF_OPEN"
  circuitBreakerOpenTime,   \* 0 is null
  halfOpenAttempts,
  pending,                  \* handlers suspended in await addDelay()
  entered,                  \* the requests handed to helloHttp by the running
                            \* macrotask since one of them reached await
                            \* addDelay() without delay; 0 once the continuations
                            \* of the macrotask run, or when none is left to run
  arrivals,                 \* history: the requests that reached the rate limiter
  drawn,                    \* history: the Math.random() values the last resumed
                            \* handler drew for simulateError() and the plain drop
  res                       \* what the last handler step did with its res object:
                            \* the response sent, or none yet (status 0)

vars == << now, serviceState, rateLimitMap, errorWindow, circuitBreakerState,
           circuitBreakerOpenTime, halfOpenAttempts, pending, entered, arrivals, drawn,
           res >>

NoEntry == [count |-> 0, start |-> 0]

\* the module-level variables of the source as one value
Globals ==
  [ serviceState |-> serviceState,
    rateLimitMap |-> rateLimitMap,
    errorWindow |-> errorWindow,
    circuitBreakerState |-> circuitBreakerState,
    circuitBreakerOpenTime |-> circuitBreakerOpenTime,
    halfOpenAttempts |-> halfOpenAttempts ]

SetGlobals(g) ==
  /\ serviceState' = g.serviceState
  /\ rateLimitMap' = g.rateLimitMap
  /\ errorWindow' = g.errorWindow
  /\ circuitBreakerState' = g.circuitBreakerState
  /\ circuitBreakerOpenTime' = g.circuitBreakerOpenTime
  /\ halfOpenAttempts' = g.halfOpenAttempts

\* ---------------------------------------------------------------- rate limiter
\* mutant: the window is over as soon as rateLimitWindowMs has elapsed
checkRateLimit_WindowEndsEarly(g, ip, t) ==
  LET entry == g.rateLimitMap[ip] IN
  IF entry = NoEntry \/ t - entry.start >= rateLimitWindowMs
  THEN [ g |-> [g EXCEPT !.rateLimitMap[ip] = [count |-> 1, start |-> t]],
         ret |-> FALSE ]
  ELSE [ g |-> [g EXCEPT !.rateLimitMap[ip].count = @ + 1],
         ret |-> entry.count + 1 > rateLimitMax ]

\* mutant: a denied request restarts the window of its client
checkRateLimit_DeniedRestartsWindow(g, ip, t) ==
  LET entry == g.rateLimitMap[ip] IN
  IF entry = NoEntry \/ t - entry.start > rateLimitWindowMs
  THEN [ g |-> [g EXCEPT !.rateLimitMap[ip] = [count |-> 1, start |-> t]],
         ret |-> FALSE ]
  ELSE IF entry.count + 1 > rateLimitMax
  THEN [ g |-> [g EXCEPT !.rateLimitMap[ip] = [count |-> entry.count + 1, start |-> t]],
         ret |-> TRUE ]
  ELSE [ g |-> [g EXCEPT !.rateLimitMap[ip].count = @ + 1],
         ret |-> FALSE ]

\* mutant: a request inside its window is counted against every client
checkRateLimit_SharedCount(g, ip, t) ==
  LET entry == g.rateLimitMap[ip] IN
  IF entry = NoEntry \/ t - entry.start > rateLimitWindowMs
  THEN [ g |-> [g EXCEPT !.rateLimitMap[ip] = [count |-> 1, start |-> t]],
         ret |-> FALSE ]
  ELSE [ g |-> [g EXCEPT !.rateLimitMap =
                  [c \in DOMAIN @ |-> IF @[c] = NoEntry THEN @[c]
                                      ELSE [@[c] EXCEPT !.count = @ + 1]]],
         ret |-> entry.count + 1 > rateLimitMax ]

checkRateLimit(g, ip, t) ==
  LET entry == g.rateLimitMap[ip] IN
  IF entry = NoEntry \/ t - entry.start > rateLimitWindowMs
  THEN [ g |-> [g EXCEPT !.rateLimitMap[ip] = [count |-> 1, start |-> t]],
         ret |-> FALSE ]
  ELSE [ g |-> [g EXCEPT !.rateLimitMap[ip].count = @ + 1],
         ret |-> entry.count + 1 > rateLimitMax ]

\* ---------------------------------------------------------------- outage scheduler
\* mutant: an outage that has run out is cleared but the service stays unhealthy
checkServiceAvailability_StaysUnhealthy(g, t, draw, duration) ==
  LET s0 == g.serviceState IN
  IF s0.outageEndTime # 0 /\ t < s0.outageEndTime
  THEN [ g |-> g, ret |-> FALSE ]
  ELSE
    LET s1 == IF s0.outageEndTime # 0 /\ t >= s0.outageEndTime
              THEN [s0 EXCEPT !.outageEndTime = 0,
                              !.lastOutageStart = 0]
              ELSE s0
    IN IF s1.isHealthy /\ draw < outageChance
       THEN [ g |-> [g EXCEPT !.serviceState =
                       [s1 EXCEPT !.isHealthy = FALSE, !.lastOutageStart = t,
                                  !.outageEndTime = t + duration]],
              ret |-> FALSE ]
       ELSE [ g |-> [g EXCEPT !.serviceState = s1], ret |-> s1.isHealthy ]

\* mutant: the outage draw is made during an outage too
checkServiceAvailability_DrawsDuringOutage(g, t, draw, duration) ==
  LET s0 == g.serviceState IN
  IF s0.outageEndTime # 0 /\ t < s0.outageEndTime /\ ~ (draw < outageChance)
  THEN [ g |-> g, ret |-> FALSE ]
  ELSE
    LET s1 == IF s0.outageEndTime # 0 /\ t >= s0.outageEndTime
              THEN [s0 EXCEPT !.isHealthy = TRUE, !.outageEndTime = 0,
                              !.lastOutageStart = 0]
              ELSE s0
    IN IF draw < outageChance
       THEN [ g |-> [g EXCEPT !.serviceState =
                       [s1 EXCEPT !.isHealthy = FALSE, !.lastOutageStart = t,
                                  !.outageEndTime = t + duration]],
              ret |-> FALSE ]
       ELSE [ g |-> [g EXCEPT !.serviceState = s1], ret |-> s1.isHealthy ]

checkServiceAvailability(g, t, draw, duration) ==
  LET s0 == g.serviceState IN
  IF s0.outageEndTime # 0 /\ t < s0.outageEndTime
  THEN [ g |-> g, ret |-> FALSE ]
  ELSE
    LET s1 == IF s0.outageEndTime # 0 /\ t >= s0.outageEndTime
              THEN [s0 EXCEPT !.isHealthy = TRUE, !.outageEndTime = 0,
                              !.lastOutageStart = 0]
              ELSE s0
    IN IF s1.isHealthy /\ draw < outageChance
       THEN [ g |-> [g EXCEPT !.serviceState =
                       [s1 EXCEPT !.isHealthy = FALSE, !.lastOutageStart = t,
                                  !.outageEndTime = t + duration]],
              ret |-> FALSE ]
       ELSE [ g |-> [g EXCEPT !.serviceState = s1], ret |-> s1.isHealthy ]

\* ---------------------------------------------------------------- normal period
\* mutant: the request that starts a normal period is not covered by it
isInNormalPeriod_NotForStarter(g, t, draw, duration) ==
  LET s0 == g.serviceState
      s1 == IF s0.normalPeriodDuration # 0
               /\ (t - s0.normalPeriodStart) > s0.normalPeriodDuration
            THEN [s0 EXCEPT !.normalPeriodDuration = 0]
            ELSE s0
      s2 == IF s1.normalPeriodDuration = 0 /\ draw < normalPeriodChance
            THEN [s1 EXCEPT !.normalPeriodStart = t, !.normalPeriodDuration = duration]
            ELSE s1
  IN [ g |-> [g EXCEPT !.serviceState = s2], ret |-> s1.normalPeriodDuration # 0 ]

isInNormalPeriod(g, t, draw, duration) ==
  LET s0 == g.serviceState
      s1 == IF s0.normalPeriodDuration # 0
               /\ (t - s0.normalPeriodStart) > s0.normalPeriodDuration
            THEN [s0 EXCEPT !.normalPeriodDuration = 0]
            ELSE s0
      s2 == IF s1.normalPeriodDuration = 0 /\ draw < normalPeriodChance
            THEN [s1 EXCEPT !.normalPeriodStart = t, !.normalPeriodDuration = duration]
            ELSE s1
  IN [ g |-> [g EXCEPT !.serviceState = s2], ret |-> s2.normalPeriodDuration # 0 ]

\* ---------------------------------------------------------------- circuit breaker
\* mutant: the breaker opens only above the threshold
isCircuitBreakerOpen_OpensAboveThreshold(g, t) ==
  LET InWindow(timestamp) == t - timestamp < circuitBreakerWindow
      g1 == [g EXCEPT !.errorWindow = SelectSeq(@, InWindow)]
  IN CASE g1.circuitBreakerState = "CLOSED" ->
            IF Len(g1.errorWindow) > circuitBreakerThreshold
            THEN [ g |-> [g1 EXCEPT !.circuitBreakerState = "OPEN",
                                    !.circuitBreakerOpenTime = t],
                   ret |-> TRUE ]
            ELSE [ g |-> g1, ret |-> FALSE ]
       [] g1.circuitBreakerState = "OPEN" ->
            IF t - g1.circuitBreakerOpenTime >= circuitBreakerRecovery
            THEN [ g |-> [g1 EXCEPT !.circuitBreakerState = "HALF_OPEN",
                                    !.halfOpenAttempts = 0],
                   ret |-> FALSE ]
            ELSE [ g |-> g1, ret |-> TRUE ]
       [] g1.circuitBreakerState = "HALF_OPEN" -> [ g |-> g1, ret |-> FALSE ]
       [] OTHER -> [ g |-> g1, ret |-> FALSE ]

\* mutant: at the threshold the request is rejected but the breaker is not opened
isCircuitBreakerOpen_RejectsWithoutOpening(g, t) ==
  LET InWindow(timestamp) == t - timestamp < circuitBreakerWindow
      g1 == [g EXCEPT !.errorWindow = SelectSeq(@, InWindow)]
  IN CASE g1.circuitBreakerState = "CLOSED" ->
            IF Len(g1.errorWindow) >= circuitBreakerThreshold
            THEN [ g |-> g1, ret |-> TRUE ]
            ELSE [ g |-> g1, ret |-> FALSE ]
       [] g1.circuitBreakerState = "OPEN" ->
            IF t - g1.circuitBreakerOpenTime >= circuitBreakerRecovery
            THEN [ g |-> [g1 EXCEPT !.circuitBreakerState = "HALF_OPEN",
                                    !.halfOpenAttempts = 0],
                   ret |-> FALSE ]
            ELSE [ g |-> g1, ret |-> TRUE ]
       [] g1.circuitBreakerState = "HALF_OPEN" -> [ g |-> g1, ret |-> FALSE ]
       [] OTHER -> [ g |-> g1, ret |-> FALSE ]

\* mutant: the breaker recovers only after more than the recovery time
isCircuitBreakerOpen_RecoversLate(g, t) ==
  LET InWindow(timestamp) == t - timestamp < circuitBreakerWindow
      g1 == [g EXCEPT !.errorWindow = SelectSeq(@, InWindow)]
  IN CASE g1.circuitBreakerState = "CLOSED" ->
            IF Len(g1.errorWindow) >= circuitBreakerThreshold
            THEN [ g |-> [g1 EXCEPT !.circuitBreakerState = "OPEN",
                                    !.circuitBreakerOpenTime = t],
                   ret |-> TRUE ]
            ELSE [ g |-> g1, ret |-> FALSE ]
       [] g1.circuitBreakerState = "OPEN" ->
            IF t - g1.circuitBreakerOpenTime > circuitBreakerRecovery
            THEN [ g |-> [g1 EXCEPT !.circuitBreakerState = "HALF_OPEN",
                                    !.halfOpenAttempts = 0],
                   ret |-> FALSE ]
            ELSE [ g |-> g1, ret |-> TRUE ]
       [] g1.circuitBreakerState = "HALF_OPEN" -> [ g |-> g1, ret |-> FALSE ]
       [] OTHER -> [ g |-> g1, ret |-> FALSE ]

\* mutant: the breaker check does not prune the error window
isCircuitBreakerOpen_NoPruning(g, t) ==
  LET g1 == g
  IN CASE g1.circuitBreakerState = "CLOSED" ->
            IF Len(g1.errorWindow) >= circuitBreakerThreshold
            THEN [ g |-> [g1 EXCEPT !.circuitBreakerState = "OPEN",
                                    !.circuitBreakerOpenTime = t],
                   ret |-> TRUE ]
            ELSE [ g |-> g1, ret |-> FALSE ]
       [] g1.circuitBreakerState = "OPEN" ->
            IF t - g1.circuitBreakerOpenTime >= circuitBreakerRecovery
            THEN [ g |-> [g1 EXCEPT !.circuitBreakerState = "HALF_OPEN",
                                    !.halfOpenAttempts = 0],
                   ret |-> FALSE ]
            ELSE [ g |-> g1, ret |-> TRUE ]
       [] g1.circuitBreakerState = "HALF_OPEN" -> [ g |-> g1, ret |-> FALSE ]
       [] OTHER -> [ g |-> g1, ret |-> FALSE ]

\* mutant: the check counts the requests it admits while HALF_OPEN
isCircuitBreakerOpen_CountsProbes(g, t) ==
  LET InWindow(timestamp) == t - timestamp < circuitBreakerWindow
      g1 == [g EXCEPT !.errorWindow = SelectSeq(@, InWindow)]
  IN CASE g1.circuitBreakerState = "CLOSED" ->
            IF Len(g1.errorWindow) >= circuitBreakerThreshold
            THEN [ g |-> [g1 EXCEPT !.circuitBreakerState = "OPEN",
                                    !.circuitBreakerOpenTime = t],
                   ret |-> TRUE ]
            ELSE [ g |-> g1, ret |-> FALSE ]
       [] g1.circuitBreakerState = "OPEN" ->
            IF t - g1.circuitBreakerOpenTime >= circuitBreakerRecovery
            THEN [ g |-> [g1 EXCEPT !.circuitBreakerState = "HALF_OPEN",
                                    !.halfOpenAttempts = 0],
                   ret |-> FALSE ]
            ELSE [ g |-> g1, ret |-> TRUE ]
       [] g1.circuitBreakerState = "HALF_OPEN" ->
            [ g |-> [g1 EXCEPT !.halfOpenAttempts = @ + 1], ret |-> FALSE ]
       [] OTHER -> [ g |-> g1, ret |-> FALSE ]

isCircuitBreakerOpen(g, t) ==
  LET InWindow(timestamp) == t - timestamp < circuitBreakerWindow
      g1 == [g EXCEPT !.errorWindow = SelectSeq(@, InWindow)]
  IN CASE g1.circuitBreakerState = "CLOSED" ->
            IF Len(g1.errorWindow) >= circuitBreakerThreshold
            THEN [ g |-> [g1 EXCEPT !.circuitBreakerState = "OPEN",
                                    !.circuitBreakerOpenTime = t],
                   ret |-> TRUE ]
            ELSE [ g |-> g1, ret |-> FALSE ]
       [] g1.circuitBreakerState = "OPEN" ->
            IF t - g1.circuitBreakerOpenTime >= circuitBreakerRecovery
            THEN [ g |-> [g1 EXCEPT !.circuitBreakerState = "HALF_OPEN",
                                    !.halfOpenAttempts = 0],
                   ret |-> FALSE ]
            ELSE [ g |-> g1, ret |-> TRUE ]
       [] g1.circuitBreakerState = "HALF_OPEN" -> [ g |-> g1, ret |-> FALSE ]
       [] OTHER -> [ g |-> g1, ret |-> FALSE ]

\* mutant: a failure in HALF_OPEN re-opens the breaker with the old open timestamp
recordError_KeepsOpenTime(g, t) ==
  LET g1 == [g EXCEPT !.errorWindow = Append(@, t),
                      !.serviceState.errorCount = @ + 1]
  IN IF g1.circuitBreakerState = "HALF_OPEN"
     THEN [g1 EXCEPT !.circuitBreakerState = "OPEN",
                     !.halfOpenAttempts = 0]
     ELSE g1

\* mutant: while the breaker is OPEN a failure is counted but not added to the window
recordError_NotWhileOpen(g, t) ==
  LET g1 == [g EXCEPT !.errorWindow = IF g.circuitBreakerState = "OPEN"
                                      THEN @ ELSE Append(@, t),
                      !.serviceState.errorCount = @ + 1]
  IN IF g1.circuitBreakerState = "HALF_OPEN"
     THEN [g1 EXCEPT !.circuitBreakerState = "OPEN",
                     !.circuitBreakerOpenTime = t,
                     !.halfOpenAttempts = 0]
     ELSE g1

\* mutant: recording a failure also trips the breaker at the threshold
recordError_OpensAtThreshold(g, t) ==
  LET g1 == [g EXCEPT !.errorWindow = Append(@, t),
                      !.serviceState.errorCount = @ + 1]
  IN IF g1.circuitBreakerState = "HALF_OPEN"
        \/ ( g1.circuitBreakerState = "CLOSED"
             /\ Len(g1.errorWindow) >= circuitBreakerThreshold )
     THEN [g1 EXCEPT !.circuitBreakerState = "OPEN",
                     !.circuitBreakerOpenTime = t,
                     !.halfOpenAttempts = 0]
     ELSE g1

\* mutant: a failure recorded while OPEN restarts the recovery time
recordError_ExtendsOpen(g, t) ==
  LET g1 == [g EXCEPT !.errorWindow = Append(@, t),
                      !.serviceState.errorCount = @ + 1]
  IN IF g1.circuitBreakerState \in {"HALF_OPEN", "OPEN"}
     THEN [g1 EXCEPT !.circuitBreakerState = "OPEN",
                     !.circuitBreakerOpenTime = t,
                     !.halfOpenAttempts = 0]
     ELSE g1

recordError(g, t) ==
  LET g1 == [g EXCEPT !.errorWindow = Append(@, t),
                      !.serviceState.errorCount = @ + 1]
  IN IF g1.circuitBreakerState = "HALF_OPEN"
     THEN [g1 EXCEPT !.circuitBreakerState = "OPEN",
                     !.circuitBreakerOpenTime = t,
                     !.halfOpenAttempts = 0]
     ELSE g1

\* mutant: one more success than configured is needed to close
recordSuccess_OneProbeMore(g, t) ==
  LET g1 == [g EXCEPT !.serviceState.successCount = @ + 1]
      g2 == [g1 EXCEPT !.halfOpenAttempts = @ + 1]
      Recent(timestamp) == 2 * timestamp > 2 * t - circuitBreakerWindow
  IN IF g1.circuitBreakerState = "HALF_OPEN"
     THEN IF g2.halfOpenAttempts > circuitBreakerHalfOpenRequests
          THEN [g2 EXCEPT !.circuitBreakerState = "CLOSED",
                          !.halfOpenAttempts = 0,
                          !.errorWindow = SelectSeq(@, Recent)]
          ELSE g2
     ELSE g1

\* mutant: closing the breaker clears the whole error window
recordSuccess_ClearsWindow(g, t) ==
  LET g1 == [g EXCEPT !.serviceState.successCount = @ + 1]
      g2 == [g1 EXCEPT !.halfOpenAttempts = @ + 1]
  IN IF g1.circuitBreakerState = "HALF_OPEN"
     THEN IF g2.halfOpenAttempts >= circuitBreakerHalfOpenRequests
          THEN [g2 EXCEPT !.circuitBreakerState = "CLOSED",
                          !.halfOpenAttempts = 0,
                          !.errorWindow = << >>]
          ELSE g2
     ELSE g1

\* cutoff = now - circuitBreakerWindow / 2; timestamp > cutoff, in integers
recordSuccess(g, t) ==
  LET g1 == [g EXCEPT !.serviceState.successCount = @ + 1]
      g2 == [g1 EXCEPT !.halfOpenAttempts = @ + 1]
      Recent(timestamp) == 2 * timestamp > 2 * t - circuitBreakerWindow
  IN IF g1.circuitBreakerState = "HALF_OPEN"
     THEN IF g2.halfOpenAttempts >= circuitBreakerHalfOpenRequests
          THEN [g2 EXCEPT !.circuitBreakerState = "CLOSED",
                          !.halfOpenAttempts = 0,
                          !.errorWindow = SelectSeq(@, Recent)]
          ELSE g2
     ELSE g1

\* ---------------------------------------------------------------- error injection
\* mutant: an injected timeout is sent with the status of a gateway timeout
simulateError_TimeoutAs504(rand) ==
  IF rand < serverErrorChance
  THEN [status |-> 500, type |-> "server_error"]
  ELSE IF rand < serverErrorChance + clientErrorChance
  THEN [status |-> 400, type |-> "client_error"]
  ELSE IF rand < serverErrorChance + clientErrorChance + timeoutChance
  THEN [status |-> 504, type |-> "timeout"]
  ELSE [status |-> 0, type |-> "none"]

\* mutant: the band of client_error is not stacked on that of server_error
simulateError_BandsNotStacked(rand) ==
  IF rand < serverErrorChance
  THEN [status |-> 500, type |-> "server_error"]
  ELSE IF rand < clientErrorChance
  THEN [status |-> 400, type |-> "client_error"]
  ELSE IF rand < serverErrorChance + clientErrorChance + timeoutChance
  THEN [status |-> 408, type |-> "timeout"]
  ELSE [status |-> 0, type |-> "none"]

simulateError(rand) ==
  IF rand < serverErrorChance
  THEN [status |-> 500, type |-> "server_error"]
  ELSE IF rand < serverErrorChance + clientErrorChance
  THEN [status |-> 400, type |-> "client_error"]
  ELSE IF rand < serverErrorChance + clientErrorChance + timeoutChance
  THEN [status |-> 408, type |-> "timeout"]
  ELSE [status |-> 0, type |-> "none"]

\* ---------------------------------------------------------------- responses
\* what res.status(..).json(..) sends, with the request it answers; payload names
\* the branch of the handler that built the body
Resp(req, status, type, payload, inNormalPeriod) ==
  [ req |-> req, status |-> status, error_type |-> type, payload |-> payload,
    in_normal_period |-> inNormalPeriod,
    circuit_breaker_state |-> "none", recovery_time_remaining |-> 0 ]

NoResponse == Resp(NoRequest, 0, "none", "none", FALSE)

\* the handler of req is suspended in await addDelay(): nothing sent yet
Awaiting(req) == Resp(req, 0, "none", "awaiting", FALSE)

Max(a, b) == IF a >= b THEN a ELSE b

\* the body of the circuit_breaker_open rejection, read after recordError()
breakerResponse(g, req, t) ==
  [ Resp(req, 503, "circuit_breaker_open", "error", FALSE) EXCEPT
      !.circuit_breaker_state = g.circuitBreakerState,
      !.recovery_time_remaining =
         IF g.circuitBreakerState = "OPEN"
         THEN Max(0, circuitBreakerRecovery - (t - g.circuitBreakerOpenTime))
         ELSE 0 ]

\* mutant: the reset leaves the open timestamp and the error window alone
resetCircuitBreaker_StateOnly(g) ==
  [g EXCEPT !.circuitBreakerState = "CLOSED",
            !.halfOpenAttempts = 0]

\* averageResponseTime is kept as an exact fraction num / den in lowest terms
RECURSIVE GCD(_, _)
GCD(a, b) == IF b = 0 THEN a ELSE GCD(b, a % b)

Fraction(num, den) ==
  LET d == GCD(num, den) IN [num |-> num \div d, den |-> den \div d]

\* averageResponseTime = (averageResponseTime * (requestCount - 1) + responseTime)
\*                       / requestCount
updateAverageResponseTime(g, responseTime) ==
  LET avg == g.serviceState.averageResponseTime
      n == g.serviceState.requestCount
  IN [g EXCEPT !.serviceState.averageResponseTime =
                  Fraction(avg.num * (n - 1) + responseTime * avg.den, avg.den * n)]

\* the reset endpoint's assignments
resetCircuitBreaker(g) ==
  [g EXCEPT !.circuitBreakerState = "CLOSED",
            !.circuitBreakerOpenTime = 0,
            !.halfOpenAttempts = 0,
            !.errorWindow = << >>]

\* mutant: POST /hello does not require a name
dispatch_NameNotRequired(g, req, t, inNormalPeriod, responseTime) ==
  LET path == req.url
      ga == updateAverageResponseTime(g, responseTime)
  IN
  IF path = "/" \/ path = "/health"
  THEN [ g |-> ga, resp |-> Resp(req, 200, "none", "health", inNormalPeriod) ]
  ELSE IF path = "/reset-circuit-breaker" /\ req.method = "POST"
  THEN [ g |-> resetCircuitBreaker(g),
         resp |-> [ Resp(req, 200, "none", "reset", FALSE) EXCEPT
                      !.circuit_breaker_state = "CLOSED" ] ]
  ELSE IF req.method = "GET"
  THEN IF req.queryName
       THEN [ g |-> ga, resp |-> Resp(req, 200, "none", "hello", inNormalPeriod) ]
       ELSE [ g |-> ga, resp |-> Resp(req, 200, "none", "hello_world", inNormalPeriod) ]
  ELSE IF req.method = "POST"
  THEN IF FALSE
       THEN [ g |-> recordError(ga, t),
              resp |-> Resp(req, 400, "validation_error", "error", FALSE) ]
       ELSE IF req.bodyName
       THEN [ g |-> ga, resp |-> Resp(req, 200, "none", "hello", inNormalPeriod) ]
       ELSE [ g |-> ga, resp |-> Resp(req, 200, "none", "generic", inNormalPeriod) ]
  ELSE [ g |-> ga, resp |-> Resp(req, 200, "none", "method_processed", inNormalPeriod) ]

\* endpoint dispatch, after recordSuccess(): path is req.url, query string included
dispatch(g, req, t, inNormalPeriod, responseTime) ==
  LET path == req.url
      ga == updateAverageResponseTime(g, responseTime)
  IN
  IF path = "/" \/ path = "/health"
  THEN [ g |-> ga, resp |-> Resp(req, 200, "none", "health", inNormalPeriod) ]
  ELSE IF path = "/reset-circuit-breaker" /\ req.method = "POST"
  THEN [ g |-> resetCircuitBreaker(g),
         resp |-> [ Resp(req, 200, "none", "reset", FALSE) EXCEPT
                      !.circuit_breaker_state = "CLOSED" ] ]
  ELSE IF req.method = "GET"
  THEN IF req.queryName
       THEN [ g |-> ga, resp |-> Resp(req, 200, "none", "hello", inNormalPeriod) ]
       ELSE [ g |-> ga, resp |-> Resp(req, 200, "none", "hello_world", inNormalPeriod) ]
  ELSE IF req.method = "POST"
  THEN IF path = "/hello" /\ ~req.bodyName
       THEN [ g |-> recordError(ga, t),
              resp |-> Resp(req, 400, "validation_error", "error", FALSE) ]
       ELSE IF req.bodyName
       THEN [ g |-> ga, resp |-> Resp(req, 200, "none", "hello", inNormalPeriod) ]
       ELSE [ g |-> ga, resp |-> Resp(req, 200, "none", "generic", inNormalPeriod) ]
  ELSE [ g |-> ga, resp |-> Resp(req, 200, "none", "method_processed", inNormalPeriod) ]

\* the catch block: an exception thrown inside the try is recorded as a failure
\* and answered 500 unexpected_error
catchError(g, req, t) ==
  [ g |-> recordError(g, t),
    resp |-> Resp(req, 500, "unexpected_error", "error", FALSE) ]

\* mutant: a draw equal to baseSuccessRate is dropped too
gracefulRequestDrop_AtRate(rand) == rand >= baseSuccessRate

\* the graceful request drop: Math.random() > successRate
gracefulRequestDrop(rand) == rand > baseSuccessRate

\* no value drawn
NotDrawn == -1

\* an exception escaped the handler: nothing is sent by it
Escaped(req) == Resp(req, 0, "none", "escaped", FALSE)

\* ---------------------------------------------------------------- the handler
Send(g, resp) == SetGlobals(g) /\ res' = resp

\* res.status(..).json(..) inside the try block, with the state g left behind:
\* it sends resp; or it throws and the catch block records the failure and
\* answers; or the res.status(500) of the catch block throws as well, after the
\* failure is recorded, and the exception escapes helloHttp
sendInTry(g, resp, req, t, fault) ==
  CASE fault = "send" -> Send(catchError(g, req, t).g, catchError(g, req, t).resp)
    [] fault = "res" -> Send(catchError(g, req, t).g, Escaped(req))
    [] OTHER -> Send(g, resp)

\* res.status(..) before the try block, with the state g left behind: it sends
\* resp, or throws and the exception escapes helloHttp
sendBeforeTry(g, resp, req, fault) ==
  IF fault \in {"send", "res"} THEN Send(g, Escaped(req)) ELSE Send(g, resp)

\* the exceptions the endpoint of req can meet: the endpoint of "/" and
\* "/health" reads nothing of req before its assignments, the others read
\* req.method
Throws(P, req) ==
  IF req.url \in {"/", "/health"} THEN P.faults \ {"endpoint"} ELSE P.faults

\* a continuation of await addDelay() without delay is among the suspended
NoDelayPending(p) == \E i \in 1 .. Len(p) : p[i].delay = 0

\* mutant: no request is taken while a handler is suspended in its delay
helloHttp_Blocking(P) ==
  /\ pending = << >>
  /\ serviceState.requestCount < P.maxRequests
  \* the requests one macrotask delivers enter one after the other, before the
  \* continuation of any of them
  /\ NoDelayPending(pending) => entered \in 1 .. (P.maxEntered - 1)
  /\ UNCHANGED << now, drawn >>
  /\ \E req \in P.requests :
       \* history of the requests that reach checkRateLimit()
       /\ arrivals' = IF P.logArrivals /\ req.method # "OPTIONS"
                      THEN Append(arrivals, [ip |-> req.ip, t |-> now,
                                             limited |-> checkRateLimit(Globals, req.ip, now).ret])
                      ELSE arrivals
       /\ LET g0 == [Globals EXCEPT !.serviceState.requestCount = @ + 1] IN
          IF req.method = "OPTIONS"
          THEN /\ \E fault \in P.faults \ {"endpoint"} :
                    sendBeforeTry(g0, Resp(req, 204, "none", "empty", FALSE), req, fault)
               /\ UNCHANGED pending
          ELSE
            LET rl == checkRateLimit(g0, req.ip, now) IN
            IF rl.ret
            THEN /\ \E fault \in P.faults \ {"endpoint"} :
                      sendBeforeTry(recordError(rl.g, now),
                                    Resp(req, 429, "rate_limit", "error", FALSE),
                                    req, fault)
                 /\ UNCHANGED pending
            ELSE
              \E od \in P.outageDraws, odur \in OutageDurations :
                LET av == checkServiceAvailability(rl.g, now, od, odur) IN
                IF ~av.ret
                THEN /\ \E fault \in P.faults \ {"endpoint"} :
                          sendInTry(recordError(av.g, now),
                                    Resp(req, 503, "service_unavailable", "error", FALSE),
                                    req, now, fault)
                     /\ UNCHANGED pending
                ELSE
                  LET cb == isCircuitBreakerOpen(av.g, now) IN
                  IF cb.ret
                  THEN /\ \E fault \in P.faults \ {"endpoint"} :
                            sendInTry(recordError(cb.g, now),
                                      breakerResponse(recordError(cb.g, now), req, now),
                                      req, now, fault)
                       /\ UNCHANGED pending
                  ELSE
                    \* addDelay(): the delay drawn, 0 when none
                    \E sd \in P.slowDraws, slow \in SlowDelays :
                      LET delay == IF sd < slowResponseChance THEN slow ELSE 0 IN
                      /\ delay > 0 => Len(pending) < P.maxPending
                      /\ pending' = Append(pending,
                                      [req |-> req, requestStart |-> now, delay |-> delay])
                      /\ Send(cb.g, Awaiting(req))
  /\ entered' = IF ~ NoDelayPending(pending') THEN 0
                ELSE IF NoDelayPending(pending) THEN entered + 1
                ELSE 1

\* helloHttp from entry to its response at a gate, or to await addDelay()
helloHttp(P) ==
  /\ serviceState.requestCount < P.maxRequests
  \* the requests one macrotask delivers enter one after the other, before the
  \* continuation of any of them
  /\ NoDelayPending(pending) => entered \in 1 .. (P.maxEntered - 1)
  /\ UNCHANGED << now, drawn >>
  /\ \E req \in P.requests :
       \* history of the requests that reach checkRateLimit()
       /\ arrivals' = IF P.logArrivals /\ req.method # "OPTIONS"
                      THEN Append(arrivals, [ip |-> req.ip, t |-> now,
                                             limited |-> checkRateLimit(Globals, req.ip, now).ret])
                      ELSE arrivals
       /\ LET g0 == [Globals EXCEPT !.serviceState.requestCount = @ + 1] IN
          IF req.method = "OPTIONS"
          THEN /\ \E fault \in P.faults \ {"endpoint"} :
                    sendBeforeTry(g0, Resp(req, 204, "none", "empty", FALSE), req, fault)
               /\ UNCHANGED pending
          ELSE
            LET rl == checkRateLimit(g0, req.ip, now) IN
            IF rl.ret
            THEN /\ \E fault \in P.faults \ {"endpoint"} :
                      sendBeforeTry(recordError(rl.g, now),
                                    Resp(req, 429, "rate_limit", "error", FALSE),
                                    req, fault)
                 /\ UNCHANGED pending
            ELSE
              \E od \in P.outageDraws, odur \in OutageDurations :
                LET av == checkServiceAvailability(rl.g, now, od, odur) IN
                IF ~av.ret
                THEN /\ \E fault \in P.faults \ {"endpoint"} :
                          sendInTry(recordError(av.g, now),
                                    Resp(req, 503, "service_unavailable", "error", FALSE),
                                    req, now, fault)
                     /\ UNCHANGED pending
                ELSE
                  LET cb == isCircuitBreakerOpen(av.g, now) IN
                  IF cb.ret
                  THEN /\ \E fault \in P.faults \ {"endpoint"} :
                            sendInTry(recordError(cb.g, now),
                                      breakerResponse(recordError(cb.g, now), req, now),
                                      req, now, fault)
                       /\ UNCHANGED pending
                  ELSE
                    \* addDelay(): the delay drawn, 0 when none
                    \E sd \in P.slowDraws, slow \in SlowDelays :
                      LET delay == IF sd < slowResponseChance THEN slow ELSE 0 IN
                      /\ delay > 0 => Len(pending) < P.maxPending
                      /\ pending' = Append(pending,
                                      [req |-> req, requestStart |-> now, delay |-> delay])
                      /\ Send(cb.g, Awaiting(req))
  /\ entered' = IF ~ NoDelayPending(pending') THEN 0
                ELSE IF NoDelayPending(pending) THEN entered + 1
                ELSE 1

\* helloHttp after await addDelay(): normal period, error injection, plain drop,
\* recordSuccess and dispatch, all at the time of the resumption
resumeHelloHttp(P) ==
  /\ UNCHANGED << now, arrivals >>
  /\ entered' = 0
  /\ \E i \in 1 .. Len(pending) :
       LET h == pending[i]
           req == h.req
       IN
       /\ h.requestStart + h.delay <= now
       \* the continuations without delay run first, in the order of their
       \* awaits; a timer that has run out fires after them
       /\ \A j \in 1 .. Len(pending) :
            pending[j].delay = 0 => h.delay = 0 /\ i <= j
       /\ pending' = SubSeq(pending, 1, i - 1) \o SubSeq(pending, i + 1, Len(pending))
       /\ \E nd \in P.normalDraws, ndur \in NormalDurations :
            LET np == isInNormalPeriod(Globals, now, nd, ndur)
                \* the endpoint answers; or it throws before it has assigned
                \* anything; or its res.status(..).json(..) throws, after its
                \* assignments, and the catch block answers, or throws too
                Answer(fault) ==
                  LET g1 == recordSuccess(np.g, now)
                      answer == dispatch(g1, req, now, np.ret, now - h.requestStart)
                  IN CASE fault = "endpoint" -> catchError(g1, req, now)
                       [] fault = "send" -> catchError(answer.g, req, now)
                       [] fault = "res" -> [ g |-> catchError(answer.g, req, now).g,
                                             resp |-> Escaped(req) ]
                       [] OTHER -> answer
                \* an error is recorded and sent, or the send throws
                Error(status, type, fault) ==
                  sendInTry(recordError(np.g, now),
                            Resp(req, status, type, "error", FALSE), req, now, fault)
                \* history of the values drawn (NotDrawn: Math.random() not called)
                Drew(error, drop) ==
                  drawn' = IF P.logDraws THEN [error |-> error, drop |-> drop]
                           ELSE drawn
            IN IF np.ret
               THEN \E fault \in Throws(P, req) :
                      /\ Send(Answer(fault).g, Answer(fault).resp)
                      /\ Drew(NotDrawn, NotDrawn)
               ELSE \E ed \in P.errorDraws :
                      LET errorScenario == simulateError(ed) IN
                      IF errorScenario.type # "none"
                      THEN /\ \E fault \in P.faults \ {"endpoint"} :
                                Error(errorScenario.status, errorScenario.type, fault)
                           /\ Drew(ed, NotDrawn)
                      ELSE \E dd \in P.dropDraws :
                             /\ Drew(ed, dd)
                             /\ IF gracefulRequestDrop(dd)
                                THEN \E fault \in P.faults \ {"endpoint"} :
                                       Error(504, "network_failure", fault)
                                ELSE \E fault \in Throws(P, req) :
                                       Send(Answer(fault).g, Answer(fault).resp)

\* mutant: an outage that has run out is cleared by the clock
Tick_Heals(P) ==
  /\ now < P.maxTime
  /\ \A i \in 1 .. Len(pending) : pending[i].requestStart + pending[i].delay > now
  /\ now' = now + 1
  /\ serviceState' = IF serviceState.outageEndTime # 0
                        /\ now + 1 >= serviceState.outageEndTime
                     THEN [serviceState EXCEPT !.isHealthy = TRUE,
                                               !.outageEndTime = 0,
                                               !.lastOutageStart = 0]
                     ELSE serviceState
  /\ UNCHANGED << rateLimitMap, errorWindow, circuitBreakerState,
                  circuitBreakerOpenTime, halfOpenAttempts, pending, entered, arrivals,
                  drawn, res >>

\* mutant: a continuation that is due can be left waiting while time passes
Tick_LateTimers(P) ==
  /\ now < P.maxTime
  /\ now' = now + 1
  /\ UNCHANGED << serviceState, rateLimitMap, errorWindow, circuitBreakerState,
                  circuitBreakerOpenTime, halfOpenAttempts, pending, entered, arrivals,
                  drawn, res >>

\* the clock advances; a due continuation runs before it advances further
Tick(P) ==
  /\ now < P.maxTime
  /\ \A i \in 1 .. Len(pending) : pending[i].requestStart + pending[i].delay > now
  /\ now' = now + 1
  /\ UNCHANGED << serviceState, rateLimitMap, errorWindow, circuitBreakerState,
                  circuitBreakerOpenTime, halfOpenAttempts, pending, entered, arrivals,
                  drawn, res >>

Init ==
  /\ now = 1
  /\ serviceState = [ isHealthy |-> TRUE, lastOutageStart |-> 0, outageEndTime |-> 0,
                      normalPeriodStart |-> 1, normalPeriodDuration |-> 0,
                      requestCount |-> 0, successCount |-> 0, errorCount |-> 0,
                      averageResponseTime |-> [num |-> 0, den |-> 1] ]
  /\ rateLimitMap = [c \in Clients |-> NoEntry]
  /\ errorWindow = << >>
  /\ circuitBreakerState = "CLOSED"
  /\ circuitBreakerOpenTime = 0
  /\ halfOpenAttempts = 0
  /\ pending = << >>
  /\ entered = 0
  /\ arrivals = << >>
  /\ drawn = [error |-> NotDrawn, drop |-> NotDrawn]
  /\ res = NoResponse

\* ---------------------------------------------------------------- specifications
\* An input profile: the requests that arrive, the Math.random() values that are
\* drawn at each decision, the exceptions that are met, the bounds of the
\* exploration (time, requests, handlers suspended in a delay, requests that
\* one macrotask hands to helloHttp before the continuations run: 1 when each
\* request has its own macrotask, 2 when two are read from one chunk of the
\* socket), and whether the histories of arrivals and of draws are kept.
Profile(reqs, od, nd, sd, ed, dd, fl, maxT, maxR, maxP, maxE, log, draws) ==
  [ requests |-> reqs, outageDraws |-> od, normalDraws |-> nd, slowDraws |-> sd,
    errorDraws |-> ed, dropDraws |-> dd, faults |-> fl,
    maxTime |-> maxT, maxRequests |-> maxR, maxPending |-> maxP, maxEntered |-> maxE,
    logArrivals |-> log,
    logDraws |-> draws ]

From(shapes, clients) ==
  { r \in Requests : r.ip \in clients /\ Req(r.method, r.url, r.bodyName, r.queryName) \in shapes }

\* every input, short runs
All == Profile(Requests, OutageDraws, NormalDraws, SlowDraws, ErrorDraws, DropDraws, {"none"},
               MaxTime, MaxRequests, MaxPending, 2, FALSE, FALSE)

Next == helloHttp(All) \/ resumeHelloHttp(All) \/ Tick(All)

Spec == Init /\ [][Next]_vars

\* the circuit breaker through a whole cycle: one client, injected errors,
\* delayed handlers and the reset endpoint; no outage, no normal period
BreakerMaxTime == 4
BreakerMaxRequests == 6
BreakerMaxPending == 1
Breaker == Profile(From({GetHealth, PostReset}, {"ip1"}),
                   {1}, {20}, SlowDraws, {99, 170}, {9500}, {"none"},
                   BreakerMaxTime, BreakerMaxRequests, BreakerMaxPending, 1, FALSE, FALSE)
NextBreaker == helloHttp(Breaker) \/ resumeHelloHttp(Breaker) \/ Tick(Breaker)
SpecBreaker == Init /\ [][NextBreaker]_vars

\* failures of every kind around the breaker: two clients (one can be over its
\* rate limit while the other probes), outages, every injected error, drops,
\* validation errors, exceptions in the endpoints that read req, before they
\* assign anything; no artificial delay is drawn
FaultsMaxTime == 3
FaultsMaxRequests == 5
Faults == Profile(From({GetHealth}, Clients) \cup From({PostHelloNoName}, {"ip2"}),
                  OutageDraws, {20}, {1500}, ErrorDraws, DropDraws, {"none", "endpoint"},
                  FaultsMaxTime, FaultsMaxRequests, 0, 1, FALSE, FALSE)
NextFaults == helloHttp(Faults) \/ resumeHelloHttp(Faults) \/ Tick(Faults)
SpecFaults == Init /\ [][NextFaults]_vars

\* exceptions of every kind: one client, the endpoints that assign before they
\* answer (validation, reset) and one that does not, outages, every injected
\* error, drops, an exception at every res.status(..).json(..), that of the
\* catch block included, and in the endpoints that read req; no artificial
\* delay is drawn
SendsMaxTime == 3
SendsMaxRequests == 4
Sends == Profile(From({GetHealth, PostHelloNoName, PostReset}, {"ip1"}),
                 OutageDraws, {20}, {1500}, ErrorDraws, DropDraws, Faulty,
                 SendsMaxTime, SendsMaxRequests, 0, 1, FALSE, FALSE)
NextSends == helloHttp(Sends) \/ resumeHelloHttp(Sends) \/ Tick(Sends)
SpecSends == Init /\ [][NextSends]_vars

\* the same runs with the event loop's scheduling: the clock advances and a
\* continuation that is due runs
SpecSendsFair ==
  SpecSends /\ WF_vars(Tick(Sends)) /\ WF_vars(resumeHelloHttp(Sends))

\* the rate limiter: two clients, every admitted request succeeds at once; the
\* history of arrivals is kept
RateMaxTime == 4
RateMaxRequests == 5
Rate == Profile(From({GetHealth}, Clients), {1}, {20}, {1500}, {170}, {9500}, {"none"},
                RateMaxTime, RateMaxRequests, 0, 2, TRUE, FALSE)
NextRate == helloHttp(Rate) \/ resumeHelloHttp(Rate) \/ Tick(Rate)
SpecRate == Init /\ [][NextRate]_vars

\* outages: one client, outages drawn, every admitted request succeeds at once
OutageMaxTime == 4
OutageMaxRequests == 5
Outage == Profile(From({GetHealth}, {"ip1"}), OutageDraws, {20}, {1500}, {170}, {9500}, {"none"},
                  OutageMaxTime, OutageMaxRequests, 0, 2, FALSE, FALSE)
NextOutage == helloHttp(Outage) \/ resumeHelloHttp(Outage) \/ Tick(Outage)
SpecOutage == Init /\ [][NextOutage]_vars

\* normal periods: one client, normal periods drawn, every injected error and
\* the plain drop, validation errors, delayed handlers
NormalMaxTime == 4
NormalMaxRequests == 3
NormalMaxPending == 1
Normal == Profile(From({GetHealth, PostHelloNoName}, {"ip1"}),
                  {1}, NormalDraws, SlowDraws, ErrorDraws, DropDraws, {"none"},
                  NormalMaxTime, NormalMaxRequests, NormalMaxPending, 1, FALSE, FALSE)
NextNormal == helloHttp(Normal) \/ resumeHelloHttp(Normal) \/ Tick(Normal)
SpecNormal == Init /\ [][NextNormal]_vars

\* the endpoints: one client, every request shape, normal periods drawn, an
\* injected error or none, exceptions in the endpoints that read req, before
\* they assign anything; no outage, no artificial delay
EndpointsMaxTime == 4
EndpointsMaxRequests == 4
Endpoints == Profile(From(Shapes, {"ip1"}),
                     {1}, NormalDraws, {1500}, {99, 170}, {9500}, {"none", "endpoint"},
                     EndpointsMaxTime, EndpointsMaxRequests, 0, 1, FALSE, FALSE)
NextEndpoints == helloHttp(Endpoints) \/ resumeHelloHttp(Endpoints) \/ Tick(Endpoints)
SpecEndpoints == Init /\ [][NextEndpoints]_vars

\* old errors: one client, runs longer than circuitBreakerWindow, an injected
\* error or none, delayed handlers
StaleMaxTime == 7
StaleMaxRequests == 3
StaleMaxPending == 1
Stale == Profile(From({GetHealth}, {"ip1"}),
                 {1}, {20}, SlowDraws, {99, 170}, {9500}, {"none"},
                 StaleMaxTime, StaleMaxRequests, StaleMaxPending, 2, FALSE, FALSE)
NextStale == helloHttp(Stale) \/ resumeHelloHttp(Stale) \/ Tick(Stale)
SpecStale == Init /\ [][NextStale]_vars

\* the plain drop: one client, normal periods drawn, every injected error and
\* both sides of baseSuccessRate, validation errors; the history of draws is kept
DropMaxTime == 2
DropMaxRequests == 3
Drop == Profile(From({GetHealth, PostHelloNoName}, {"ip1"}),
                {1}, NormalDraws, {1500}, ErrorDraws, DropDraws, {"none"},
                DropMaxTime, DropMaxRequests, 0, 2, FALSE, TRUE)
NextDrop == helloHttp(Drop) \/ resumeHelloHttp(Drop) \/ Tick(Drop)
SpecDrop == Init /\ [][NextDrop]_vars

\* recovery of the breaker: one client (it can be rate limited while the
\* breaker is OPEN), an injected error or none; no outage, no normal period, no
\* artificial delay
RecoveryMaxTime == 4
RecoveryMaxRequests == 5
Recovery == Profile(From({GetHealth}, {"ip1"}),
                    {1}, {20}, {1500}, {99, 170}, {9500}, {"none"},
                    RecoveryMaxTime, RecoveryMaxRequests, 0, 2, FALSE, FALSE)
NextRecovery == helloHttp(Recovery) \/ resumeHelloHttp(Recovery) \/ Tick(Recovery)
SpecRecovery == Init /\ [][NextRecovery]_vars

\* the same runs without idling: while a request of the run is left to arrive,
\* a continuation is due or the clock can advance, one of them happens
SpecRecoveryFair == SpecRecovery /\ WF_vars(NextRecovery)

\* handlers suspended across the opening of the breaker: two clients (the
\* second reaches the breaker gate while the first is at its rate limit), an
\* injected error or none, delayed handlers; no outage, no normal period
ProbeMaxTime == 3
ProbeMaxRequests == 5
ProbeMaxPending == 1
Probe == Profile(From({GetHealth}, Clients),
                 {1}, {20}, SlowDraws, {99, 170}, {9500}, {"none"},
                 ProbeMaxTime, ProbeMaxRequests, ProbeMaxPending, 1, FALSE, FALSE)
NextProbe == helloHttp(Probe) \/ resumeHelloHttp(Probe) \/ Tick(Probe)
SpecProbe == Init /\ [][NextProbe]_vars

\* ---------------------------------------------------------------- steps, as the claims see them
\* a step of helloHttp from its entry
HandlerStep == serviceState'.requestCount = serviceState.requestCount + 1
\* a step that resumes a handler after its await
ResumeStep == Len(pending') < Len(pending)
\* the request of the step was not answered before the circuit breaker gate
ReachedBreakerGate ==
  /\ res'.req.method # "OPTIONS"
  /\ res'.error_type \notin {"rate_limit", "service_unavailable"}
\* the request of the step was rejected by the circuit breaker
RejectedByBreaker == res'.status = 503 /\ res'.error_type = "circuit_breaker_open"
\* recorded errors that isCircuitBreakerOpen() would keep at time t
RecentErrors(t) ==
  Cardinality({ i \in 1 .. Len(errorWindow) : t - errorWindow[i] < circuitBreakerWindow })

\* ---------------------------------------------------------------- C1
\* C1: with the breaker CLOSED and at least circuitBreakerThreshold recorded
\* failures still inside circuitBreakerWindow, a request that passes the rate
\* limiter and the outage gate is rejected with 503 circuit_breaker_open, and the
\* breaker goes CLOSED -> OPEN with the open timestamp set to the request's time.
C1_OpensAtThreshold ==
  [][ ( /\ HandlerStep
        /\ circuitBreakerState = "CLOSED"
        /\ RecentErrors(now) >= circuitBreakerThreshold
        /\ ReachedBreakerGate )
      => ( /\ RejectedByBreaker
           /\ circuitBreakerState' = "OPEN"
           /\ circuitBreakerOpenTime' = now ) ]_vars

\* the rejection that opened the breaker: the threshold failures, then this one
C1_Witness ==
  /\ res.error_type = "circuit_breaker_open"
  /\ circuitBreakerState = "OPEN"
  /\ circuitBreakerOpenTime = now
  /\ serviceState.errorCount = circuitBreakerThreshold + 1

\* ---------------------------------------------------------------- C2
\* C2: while OPEN, a request that reaches the breaker gate less than
\* circuitBreakerRecovery after the open timestamp is rejected and the breaker
\* stays OPEN; one that reaches it at or after open timestamp +
\* circuitBreakerRecovery is admitted (its handler goes on to addDelay), the
\* breaker is HALF_OPEN and the half-open counter is 0.
C2_OpenUntilRecovery ==
  [][ ( /\ HandlerStep
        /\ circuitBreakerState = "OPEN"
        /\ ReachedBreakerGate )
      => IF now - circuitBreakerOpenTime < circuitBreakerRecovery
         THEN /\ RejectedByBreaker
              /\ circuitBreakerState' = "OPEN"
              /\ circuitBreakerOpenTime' = circuitBreakerOpenTime
         ELSE /\ res' = Awaiting(res'.req)
              /\ Len(pending') = Len(pending) + 1
              /\ circuitBreakerState' = "HALF_OPEN"
              /\ halfOpenAttempts' = 0 ]_vars

\* the probe request has just been admitted, after an earlier rejection
C2_Witness ==
  /\ circuitBreakerState = "HALF_OPEN"
  /\ halfOpenAttempts = 0
  /\ Len(pending) = 1
  /\ res = Awaiting(pending[1].req)
  /\ now >= circuitBreakerOpenTime + circuitBreakerRecovery
  /\ serviceState.errorCount > circuitBreakerThreshold

\* ---------------------------------------------------------------- C3
\* C3: in HALF_OPEN the half-open counter is below
\* circuitBreakerHalfOpenRequests, and a recorded success (not the reset
\* endpoint's, which closes the breaker by itself) adds one to it: the success
\* that brings it to circuitBreakerHalfOpenRequests closes the breaker, an earlier
\* one with no failure in the same request leaves it HALF_OPEN.
C3_ClosesAfterProbes ==
  [][ /\ circuitBreakerState' = "HALF_OPEN"
         => halfOpenAttempts' \in 0 .. (circuitBreakerHalfOpenRequests - 1)
      /\ ( /\ circuitBreakerState = "HALF_OPEN"
           /\ serviceState'.successCount = serviceState.successCount + 1
           /\ res'.payload # "reset" )
         => IF halfOpenAttempts + 1 >= circuitBreakerHalfOpenRequests
            THEN circuitBreakerState' = "CLOSED" /\ halfOpenAttempts' = 0
            ELSE serviceState'.errorCount = serviceState.errorCount
                 => /\ circuitBreakerState' = "HALF_OPEN"
                    /\ halfOpenAttempts' = halfOpenAttempts + 1 ]_vars

\* the breaker has closed on the last of the probes' successes
C3_Witness ==
  /\ circuitBreakerState = "CLOSED"
  /\ circuitBreakerOpenTime # 0
  /\ res.status = 200 /\ res.payload = "health"
  /\ serviceState.successCount = circuitBreakerHalfOpenRequests
  /\ serviceState.errorCount = circuitBreakerThreshold + 1

\* ---------------------------------------------------------------- C4
\* the reset endpoint has run in the step, before the failure was recorded:
\* only the reset clears the open timestamp
C4_ClosedByReset ==
  /\ res'.req.url = "/reset-circuit-breaker"
  /\ serviceState'.successCount = serviceState.successCount + 1
  /\ circuitBreakerOpenTime' = 0

\* C4: a failure recorded while the breaker is HALF_OPEN (neither the
\* request's own success nor its reset has closed it just before) moves it to
\* OPEN with the open timestamp at the time of the failure and the half-open
\* counter 0, whatever the kind of the failure, also when a second failure is
\* recorded for the answer that could not be sent.
C4_HalfOpenFailureReopens ==
  [][ ( /\ circuitBreakerState = "HALF_OPEN"
        /\ serviceState'.errorCount > serviceState.errorCount
        /\ ~ ( /\ serviceState'.successCount = serviceState.successCount + 1
               /\ halfOpenAttempts + 1 >= circuitBreakerHalfOpenRequests )
        /\ ~ C4_ClosedByReset )
      => ( /\ circuitBreakerState' = "OPEN"
           /\ circuitBreakerOpenTime' = now
           /\ halfOpenAttempts' = 0 ) ]_vars

\* re-opened by a failure: the breaker opened at the present time and the only
\* error recorded at this time is not a rejection by the breaker
C4_Witness ==
  /\ circuitBreakerState = "OPEN"
  /\ circuitBreakerOpenTime = now
  /\ res.status # 0 /\ res.error_type \notin {"none", "circuit_breaker_open"}
  /\ Cardinality({ i \in 1 .. Len(errorWindow) : errorWindow[i] = now }) = 1
  /\ serviceState.errorCount > circuitBreakerThreshold + 1

\* ---------------------------------------------------------------- C5
\* C5: POST /reset-circuit-breaker bypasses the admission gates: whatever the
\* state before it, its response has status 200 and the breaker is left CLOSED
\* with an empty error window and a half-open counter of 0.
C5_ResetAlwaysCloses ==
  ( /\ res.req.method = "POST"
    /\ res.req.url = "/reset-circuit-breaker"
    /\ res.status # 0 )
  => ( /\ res.status = 200
       /\ circuitBreakerState = "CLOSED"
       /\ errorWindow = << >>
       /\ halfOpenAttempts = 0 )

\* ---------------------------------------------------------------- C6
\* the entry of client c that the claim describes, after the first n arrivals:
\* a client's first request, or one made more than rateLimitWindowMs after the
\* window start, starts a window with count 1 at its own time; any other is one
\* more request of the current window
RECURSIVE C6_Window(_, _)
C6_Window(c, n) ==
  IF n = 0 THEN NoEntry
  ELSE LET prev == C6_Window(c, n - 1)
           a == arrivals[n]
       IN IF a.ip # c THEN prev
          ELSE IF prev = NoEntry \/ a.t - prev.start > rateLimitWindowMs
               THEN [count |-> 1, start |-> a.t]
               ELSE [count |-> prev.count + 1, start |-> prev.start]

\* C6: for each client, the first rateLimitMax requests of a window pass the
\* rate limiter and every later request of that window is denied; the first
\* request made more than rateLimitWindowMs after the window start passes and
\* starts a fresh window with count 1 and start equal to its own time.
C6_WindowCounts ==
  /\ \A n \in 1 .. Len(arrivals) :
       arrivals[n].limited <=> C6_Window(arrivals[n].ip, n).count > rateLimitMax
  /\ \A c \in Clients : rateLimitMap[c] = C6_Window(c, Len(arrivals))

\* a client was denied, and its request made after the window elapsed has
\* passed and started a fresh window
C6_Witness ==
  /\ Len(arrivals) = rateLimitMax + 2
  /\ \A n \in 1 .. Len(arrivals) : arrivals[n].ip = "ip1"
  /\ arrivals[rateLimitMax + 1].limited
  /\ ~ arrivals[rateLimitMax + 2].limited
  /\ rateLimitMap["ip1"] = [count |-> 1, start |-> now]
  /\ now - arrivals[1].t > rateLimitWindowMs
  /\ res.status = 200

\* ---------------------------------------------------------------- C7
\* C7: the rate limiter is a sliding window: for every client and every
\* interval of length rateLimitWindowMs, at most rateLimitMax of the client's
\* requests pass the rate limiter.
C7_SlidingWindow ==
  \A c \in Clients, a \in 1 .. now :
    Cardinality({ n \in 1 .. Len(arrivals) :
                    /\ arrivals[n].ip = c
                    /\ ~ arrivals[n].limited
                    /\ arrivals[n].t >= a
                    /\ arrivals[n].t < a + rateLimitWindowMs }) <= rateLimitMax

\* ---------------------------------------------------------------- C8
\* a step of helloHttp whose request reaches checkServiceAvailability() while an
\* outage end time is set
C8_CheckDuringWindow ==
  /\ HandlerStep
  /\ res'.req.method # "OPTIONS"
  /\ res'.error_type # "rate_limit"
  /\ serviceState.outageEndTime # 0

\* C8: once an outage end time is set, every availability check made before
\* that time returns false, and the first check made strictly after it
\* returns true and clears the window.
\* Violated: the check that clears a window that has run out (lines 82-87)
\* goes on to the outage draw in the same call (lines 90-99); when the draw
\* starts a new outage, the first check after the end time returns false and
\* leaves a new window set.
C8_OutageWindow_AsStated ==
  [][ C8_CheckDuringWindow
      => /\ now < serviceState.outageEndTime
            => res'.error_type = "service_unavailable"
         /\ now > serviceState.outageEndTime
            => /\ res'.error_type # "service_unavailable"
               /\ serviceState'.outageEndTime = 0 ]_vars

\* ---------------------------------------------------------------- C9
\* the normal period recorded in serviceState has not run out at the present time
C9_Active ==
  /\ serviceState.normalPeriodDuration # 0
  /\ now - serviceState.normalPeriodStart <= serviceState.normalPeriodDuration

\* C9: a request that has passed the rate-limit, outage and breaker gates and
\* is served while a normal period is active (one that has not run out, or one
\* that its own check starts) receives no injected error (500, 400
\* client_error, 408) and no 504 network_failure: it is recorded as a success
\* and handed to its endpoint.
C9_NormalPeriodSucceeds ==
  [][ ( ResumeStep /\ (C9_Active \/ serviceState'.normalPeriodDuration # 0) )
      => ( /\ serviceState'.normalPeriodDuration # 0
           /\ res'.error_type \notin {"server_error", "client_error", "timeout",
                                      "network_failure"}
           /\ res'.status \notin {500, 408, 504}
           /\ serviceState'.successCount = serviceState.successCount + 1
           /\ res'.status = 200 \/ res'.error_type = "validation_error" ) ]_vars

\* a request served inside a normal period that an earlier request started
C9_Witness ==
  /\ serviceState.normalPeriodDuration # 0
  /\ serviceState.normalPeriodStart < now
  /\ res.status = 200 /\ res.in_normal_period
  /\ serviceState.successCount >= 2

\* ---------------------------------------------------------------- C10
\* C10: the total request count never decreases and, whenever no request is
\* in progress, equals success count plus failure count.
C10_TotalIsSuccessPlusFailure ==
  [][ /\ serviceState'.requestCount >= serviceState.requestCount
      /\ pending' = << >>
         => serviceState'.requestCount
              = serviceState'.successCount + serviceState'.errorCount ]_vars

\* ---------------------------------------------------------------- C11
\* the error kinds and the status of each
C11_Taxonomy ==
  { << "rate_limit", 429 >>, << "service_unavailable", 503 >>,
    << "circuit_breaker_open", 503 >>, << "server_error", 500 >>,
    << "client_error", 400 >>, << "timeout", 408 >>, << "network_failure", 504 >>,
    << "validation_error", 400 >>, << "unexpected_error", 500 >> }

\* C11: every error response carries one of the nine error kinds with the
\* status fixed for that kind, and a response without an error kind is not an
\* error response (200 or 204); no other (kind, status) pair is sent.
C11_KindFixesStatus ==
  res.status # 0
  => IF res.error_type = "none"
     THEN res.status \in {200, 204}
     ELSE << res.error_type, res.status >> \in C11_Taxonomy

\* an exception in an endpoint answered 500 unexpected_error, after a client
\* went over its rate limit and more failures than the breaker threshold were
\* recorded
C11_Witness ==
  /\ res.error_type = "unexpected_error" /\ res.status = 500
  /\ serviceState.successCount >= 1
  /\ serviceState.errorCount > circuitBreakerThreshold + 1
  /\ \E c \in Clients : rateLimitMap[c].count > rateLimitMax

\* ---------------------------------------------------------------- C12
\* the failures that the pipeline generates
C12_PipelineFailures ==
  { "rate_limit", "service_unavailable", "circuit_breaker_open", "server_error",
    "client_error", "timeout", "network_failure", "unexpected_error" }

\* entries of the error window w with the present time as their timestamp
C12_AtNow(w) == Cardinality({ i \in 1 .. Len(w) : w[i] = now })

\* the failures recorded by the step: recordError() counts each one (line 166)
C12_Failures == serviceState'.errorCount - serviceState.errorCount

\* the step has appended one timestamp, the present time, for each failure it
\* recorded, to a window whose earlier entries were there already; a reset
\* whose answer could not be sent appends it to the window it has emptied,
\* whether the catch block can answer or not
C12_Appended ==
  /\ Len(errorWindow') >= C12_Failures
  /\ \A i \in 1 .. C12_Failures : errorWindow'[Len(errorWindow') + 1 - i] = now
  /\ \/ /\ C12_AtNow(errorWindow') = C12_AtNow(errorWindow) + C12_Failures
        /\ Len(errorWindow') <= Len(errorWindow) + C12_Failures
        /\ \A i \in 1 .. (Len(errorWindow') - C12_Failures) :
             \E j \in 1 .. Len(errorWindow) : errorWindow[j] = errorWindow'[i]
     \/ /\ ResumeStep
        /\ res'.req.url = "/reset-circuit-breaker"
        /\ res'.error_type = "unexpected_error" \/ res'.payload = "escaped"
        /\ errorWindow' = << now >>

\* C12: a request answered with a pipeline-generated failure (the breaker's
\* own circuit_breaker_open rejections included) has recorded one failure, and
\* every failure recorded appends exactly one timestamp, the present time, to
\* the error window; the entries before it were in the window already. Only
\* an unexpected_error, answered or not, can come with two failures, each with
\* its timestamp: the failure whose answer could not be sent, and the
\* unexpected error.
C12_FailureFeedsWindow ==
  [][ ( HandlerStep \/ ResumeStep )
      => ( /\ C12_Failures \in 0 .. 2
           /\ res'.error_type \in C12_PipelineFailures => C12_Failures >= 1
           /\ res'.error_type \in C12_PipelineFailures \ {"unexpected_error"}
              => C12_Failures = 1
           /\ C12_Failures >= 1 => C12_Appended ) ]_vars

\* the breaker, already OPEN, has rejected one more request and the rejection
\* is in the window
C12_Witness ==
  /\ res.error_type = "circuit_breaker_open"
  /\ circuitBreakerState = "OPEN"
  /\ circuitBreakerOpenTime < now
  /\ Len(errorWindow) = circuitBreakerThreshold + 2
  /\ errorWindow[Len(errorWindow)] = now
  /\ serviceState.errorCount = circuitBreakerThreshold + 2

\* ---------------------------------------------------------------- C13
\* C13: a request answered 400 validation_error adds no timestamp to the error
\* window and does not change the breaker state (its recorded success may
\* close a HALF_OPEN breaker; the validation error itself changes nothing).
C13_ValidationNotFed ==
  [][ ( ResumeStep /\ res'.error_type = "validation_error" )
      => ( /\ C12_AtNow(errorWindow') = C12_AtNow(errorWindow)
           /\ Len(errorWindow') <= Len(errorWindow)
           /\ \/ circuitBreakerState' = circuitBreakerState
              \/ circuitBreakerState = "HALF_OPEN" /\ circuitBreakerState' = "CLOSED" ) ]_vars

\* ---------------------------------------------------------------- C14
\* the rate limiter denies the request of the step
C14_Limited == checkRateLimit(Globals, res'.req.ip, now).ret
\* an outage holds at the time of the step
C14_InOutage == serviceState.outageEndTime # 0 /\ now < serviceState.outageEndTime
\* the exception of the step escaped the handler
C14_Escaped == res'.payload = "escaped"
\* the availability check of the step returned false
C14_Unavailable == ~ C14_Limited /\ ~ serviceState'.isHealthy
\* the step has recorded its failure (and a second one when the answer could
\* not be sent and the catch block ran) and has not run the breaker check:
\* the window is not pruned, a CLOSED breaker is not opened, an OPEN one does
\* not recover
C14_NoBreakerCheck ==
  /\ errorWindow' =
       IF res'.error_type = "unexpected_error" \/ (C14_Escaped /\ ~ C14_Limited)
       THEN Append(Append(errorWindow, now), now)
       ELSE Append(errorWindow, now)
  /\ circuitBreakerState = "CLOSED" => circuitBreakerState' = "CLOSED"
  /\ circuitBreakerState = "OPEN"
     => /\ circuitBreakerState' = "OPEN"
        /\ circuitBreakerOpenTime' = circuitBreakerOpenTime
        /\ halfOpenAttempts' = halfOpenAttempts
\* the step has made no outage draw and cleared no outage
C14_NoOutageDraw ==
  /\ serviceState'.outageEndTime = serviceState.outageEndTime
  /\ serviceState'.lastOutageStart = serviceState.lastOutageStart
  /\ serviceState'.isHealthy = serviceState.isHealthy

\* C14: the gates run in the order rate limiter, outage scheduler, circuit
\* breaker, and a rejection stops the request: a request over its rate limit
\* is answered rate_limit whatever the outage and the breaker (or not answered
\* at all when that answer cannot be sent), with no outage draw and no breaker
\* check; a request admitted by the limiter and refused by the availability
\* check, as every one during an outage is, is answered service_unavailable
\* (unexpected_error when that answer cannot be sent, or not answered at all
\* when no answer can) with no breaker check.
\* Neither moves the breaker CLOSED to OPEN or OPEN to HALF_OPEN.
C14_GateOrder ==
  [][ ( HandlerStep /\ res'.req.method # "OPTIONS" )
      => ( /\ res'.error_type = "rate_limit" => C14_Limited
           /\ C14_Limited
              => /\ res'.error_type = "rate_limit" \/ C14_Escaped
                 /\ C14_NoOutageDraw /\ C14_NoBreakerCheck
           /\ (~ C14_Limited /\ C14_InOutage)
              => C14_Unavailable /\ C14_NoOutageDraw
           /\ res'.error_type = "service_unavailable"
              => C14_Unavailable
           /\ C14_Unavailable
              => /\ \/ res'.error_type \in {"service_unavailable", "unexpected_error"}
                    \/ C14_Escaped
                 /\ C14_NoBreakerCheck ) ]_vars

\* a request over its rate limit was answered 429 while the breaker, OPEN for
\* the recovery time, would have gone HALF_OPEN at its check
C14_Witness ==
  /\ res.error_type = "rate_limit" /\ res.status = 429
  /\ circuitBreakerState = "OPEN"
  /\ now - circuitBreakerOpenTime >= circuitBreakerRecovery
  /\ Len(errorWindow) >= 1 /\ errorWindow[Len(errorWindow)] = now

\* ---------------------------------------------------------------- C15
\* C15: an OPTIONS request is answered 204 at once and leaves the pipeline
\* state unchanged: rate-limit entries, outage and normal-period windows,
\* breaker state and error window, and the total, success and failure counters.
C15_OptionsChangesNothing ==
  [][ ( HandlerStep /\ res'.req.method = "OPTIONS" )
      => ( /\ res'.status = 204
           /\ pending' = pending
           /\ UNCHANGED << serviceState, rateLimitMap, errorWindow,
                           circuitBreakerState, circuitBreakerOpenTime,
                           halfOpenAttempts >> ) ]_vars

\* ---------------------------------------------------------------- C16
\* C16: a POST to path / that passes the pipeline is answered with the hello
\* echo when the body has a name and with the generic echo otherwise.
C16_PostRootEchoes ==
  ( /\ res.req.method = "POST"
    /\ res.req.url = "/"
    /\ res.status = 200 )
  => res.payload = IF res.req.bodyName THEN "hello" ELSE "generic"

\* ---------------------------------------------------------------- C17
\* the step answers a POST /hello
C17_PostHello == res'.req.method = "POST" /\ res'.req.url = "/hello"

\* C17: a POST /hello that passes every gate, error injection and the
\* plain-drop check (and whose endpoint does not throw) is answered with the
\* hello message when its body has a name and 400 validation_error when it has
\* none; a validation_error is sent only by such a request, after the gates
\* (in the resumed handler) and after its success has been recorded.
C17_NameRequiredAfterPipeline ==
  [][ /\ ( /\ ResumeStep
           /\ C17_PostHello
           /\ res'.error_type \notin { "server_error", "client_error", "timeout",
                                       "network_failure", "unexpected_error" } )
         => /\ serviceState'.successCount = serviceState.successCount + 1
            /\ IF res'.req.bodyName
               THEN /\ res'.status = 200 /\ res'.payload = "hello"
                    /\ res'.error_type = "none"
                    /\ serviceState'.errorCount = serviceState.errorCount
               ELSE /\ res'.status = 400 /\ res'.error_type = "validation_error"
                    /\ serviceState'.errorCount = serviceState.errorCount + 1
      /\ ( (HandlerStep \/ ResumeStep) /\ res'.error_type = "validation_error" )
         => /\ ResumeStep
            /\ C17_PostHello /\ ~ res'.req.bodyName
            /\ serviceState'.successCount = serviceState.successCount + 1 ]_vars

\* a POST /hello without name has passed the pipeline and was answered 400
\* validation_error, its own success recorded like that of the request before it
C17_Witness ==
  /\ res.req.method = "POST" /\ res.req.url = "/hello" /\ ~ res.req.bodyName
  /\ res.status = 400 /\ res.error_type = "validation_error"
  /\ serviceState.requestCount = 2
  /\ serviceState.successCount = 2
  /\ serviceState.errorCount = 1

\* ---------------------------------------------------------------- C18
\* every entry of the error window, as the step leaves it, is younger than
\* circuitBreakerWindow
C18_NoStaleEntry ==
  \A i \in 1 .. Len(errorWindow') : now - errorWindow'[i] < circuitBreakerWindow

\* C18 (as the code has it): after a breaker check (isCircuitBreakerOpen), and
\* the failure recorded when the check rejects, every entry of the error
\* window is within circuitBreakerWindow of the current time.
C18_PrunedAtCheck ==
  [][ ( HandlerStep /\ ReachedBreakerGate ) => C18_NoStaleEntry ]_vars

\* C18 (as stated): after any access to the breaker, a check, a recorded
\* failure or a recorded success, every entry of the error window is within
\* circuitBreakerWindow of the current time.
C18_PrunedAtAnyAccess ==
  [][ ( (HandlerStep /\ res'.req.method # "OPTIONS") \/ ResumeStep )
      => C18_NoStaleEntry ]_vars

\* the only error recorded so far has been pruned by the check of a later
\* request
C18_Witness ==
  /\ serviceState.errorCount = 1
  /\ errorWindow = << >>
  /\ circuitBreakerState = "CLOSED"
  /\ Len(pending) = 1 /\ res = Awaiting(pending[1].req)

\* ---------------------------------------------------------------- C19
\* the step closes a HALF_OPEN breaker by its recorded success (not by the
\* reset endpoint) and records no failure
C19_CloseStep ==
  /\ circuitBreakerState = "HALF_OPEN"
  /\ circuitBreakerState' = "CLOSED"
  /\ res'.payload # "reset"
  /\ serviceState'.errorCount = serviceState.errorCount

\* C19 (as the code has it): on the HALF_OPEN to CLOSED transition the error
\* window is partly forgiven: the entries at or before the age cutoff, now
\* minus circuitBreakerWindow/2, are discarded (the oldest part) and the
\* entries newer than the cutoff are kept.
C19_OldHalfForgiven ==
  [][ C19_CloseStep
      => LET Newer(timestamp) == 2 * timestamp > 2 * now - circuitBreakerWindow
         IN errorWindow' = SelectSeq(errorWindow, Newer) ]_vars

\* C19 (as stated): on the HALF_OPEN to CLOSED transition the entries newer
\* than the age cutoff are discarded and the remaining, older ones are kept.
C19_NewHalfForgiven ==
  [][ C19_CloseStep
      => LET Older(timestamp) == 2 * timestamp <= 2 * now - circuitBreakerWindow
         IN errorWindow' = SelectSeq(errorWindow, Older) ]_vars

\* the breaker has closed after its probes; of the three failures that opened
\* it, the oldest was discarded and the two newer than the cutoff remain
C19_Witness ==
  /\ circuitBreakerState = "CLOSED"
  /\ circuitBreakerOpenTime # 0
  /\ res.payload = "health" /\ res.status = 200
  /\ serviceState.errorCount = circuitBreakerThreshold + 1
  /\ serviceState.successCount = circuitBreakerHalfOpenRequests
  /\ Len(errorWindow) = circuitBreakerThreshold
  /\ \A i \in 1 .. Len(errorWindow) :
       2 * errorWindow[i] > 2 * now - circuitBreakerWindow

\* ---------------------------------------------------------------- C20
\* the normal-period window is as the isInNormalPeriod() call of the step's
\* own request left it
C20_NormalPeriodAsChecked ==
  \E nd \in NormalDraws, ndur \in NormalDurations :
    LET s == isInNormalPeriod(Globals, now, nd, ndur).g.serviceState
    IN /\ serviceState'.normalPeriodStart = s.normalPeriodStart
       /\ serviceState'.normalPeriodDuration = s.normalPeriodDuration

\* C20: when the reset operation runs it leaves the breaker CLOSED with an
\* empty error window, no open timestamp and a half-open counter of 0, from
\* any prior breaker state, and it changes no rate-limit entry, no outage
\* window and no normal-period window.
C20_ResetOperation ==
  [][ ( ResumeStep /\ res'.payload = "reset" )
      => ( /\ res'.status = 200
           /\ circuitBreakerState' = "CLOSED"
           /\ errorWindow' = << >>
           /\ circuitBreakerOpenTime' = 0
           /\ halfOpenAttempts' = 0
           /\ rateLimitMap' = rateLimitMap
           /\ C14_NoOutageDraw
           /\ C20_NormalPeriodAsChecked ) ]_vars

\* three failures opened the breaker; the fourth request, the reset, was
\* admitted as the probe of the HALF_OPEN breaker and has run in a normal
\* period
C20_Witness ==
  /\ res.payload = "reset" /\ res.status = 200
  /\ serviceState.requestCount = 4
  /\ serviceState.errorCount = circuitBreakerThreshold + 1
  /\ serviceState.successCount = 1
  /\ circuitBreakerState = "CLOSED"
  /\ circuitBreakerOpenTime = 0
  /\ errorWindow = << >>
  /\ serviceState.normalPeriodDuration # 0

\* ---------------------------------------------------------------- C21
\* C21: while the breaker is HALF_OPEN the breaker gate admits every request
\* that reaches it (the handler goes on to addDelay), and the check changes
\* neither the breaker state, the open timestamp nor the half-open counter.
C21_HalfOpenAdmitsAll ==
  [][ ( /\ HandlerStep
        /\ circuitBreakerState = "HALF_OPEN"
        /\ ReachedBreakerGate )
      => ( /\ res' = Awaiting(res'.req)
           /\ Len(pending') = Len(pending) + 1
           /\ circuitBreakerState' = "HALF_OPEN"
           /\ circuitBreakerOpenTime' = circuitBreakerOpenTime
           /\ halfOpenAttempts' = halfOpenAttempts ) ]_vars

\* a request has been admitted by the gate of a breaker that was HALF_OPEN
\* already, one probe having succeeded before
C21_Witness ==
  /\ circuitBreakerState = "HALF_OPEN"
  /\ halfOpenAttempts = 1
  /\ Len(pending) = 1
  /\ res = Awaiting(pending[1].req)
  /\ pending[1].requestStart = now
  /\ serviceState.successCount = 1

\* ---------------------------------------------------------------- C22
\* the requests that have passed the breaker gate in the present HALF_OPEN
\* episode: the probes that have succeeded, and the suspended handlers admitted
\* since the recovery time of the present open timestamp
C22_ProbesInEpisode ==
  halfOpenAttempts
  + Cardinality({ i \in 1 .. Len(pending) :
                    pending[i].requestStart
                      >= circuitBreakerOpenTime + circuitBreakerRecovery })

\* C22: during one HALF_OPEN episode at most circuitBreakerHalfOpenRequests
\* requests pass the breaker gate before the breaker has closed or re-opened,
\* also when requests are suspended in their delay.
C22_ProbesLimited ==
  circuitBreakerState = "HALF_OPEN"
  => C22_ProbesInEpisode <= circuitBreakerHalfOpenRequests

\* ---------------------------------------------------------------- C23
\* C23: while an outage end time is set and not yet reached, no step makes an
\* outage draw or changes the stored outage window: the end time, the start and
\* the health flag stay as they are.
C23_OneOutageAtATime ==
  [][ ( serviceState.outageEndTime # 0 /\ now < serviceState.outageEndTime )
      => ( /\ serviceState'.outageEndTime = serviceState.outageEndTime
           /\ serviceState'.lastOutageStart = serviceState.lastOutageStart
           /\ serviceState'.isHealthy = serviceState.isHealthy
           /\ ~ serviceState.isHealthy ) ]_vars

\* a request made during the outage, after the one that started it, was
\* refused and the window is the one drawn at the start
C23_Witness ==
  /\ res.error_type = "service_unavailable"
  /\ serviceState.lastOutageStart < now
  /\ now < serviceState.outageEndTime
  /\ Len(errorWindow) = 2 /\ errorWindow[1] = serviceState.lastOutageStart
  /\ errorWindow[2] = now

\* ---------------------------------------------------------------- C24
\* C24: the passage of time alone changes neither the outage window, the
\* normal period, the counters, the breaker state, the error window nor any
\* rate-limit entry: every change of them is a step of a request's handler.
C24_NoChangeWithoutRequest ==
  [][ ( ~ HandlerStep /\ ~ ResumeStep )
      => UNCHANGED << serviceState, rateLimitMap, errorWindow, circuitBreakerState,
                      circuitBreakerOpenTime, halfOpenAttempts, pending >> ]_vars

\* no request has come since the outage ran out and the breaker's recovery
\* time elapsed: the service is still recorded unhealthy and the breaker OPEN
C24_Witness ==
  /\ serviceState.outageEndTime # 0 /\ now >= serviceState.outageEndTime
  /\ ~ serviceState.isHealthy
  /\ circuitBreakerState = "OPEN"
  /\ now - circuitBreakerOpenTime >= circuitBreakerRecovery

\* ---------------------------------------------------------------- C25
\* handlers are suspended, each in a delay that has not run out, and the run
\* has requests left
C25_OnlyDelayedSuspended ==
  /\ pending # << >>
  /\ \A i \in 1 .. Len(pending) : pending[i].delay > 0
  /\ serviceState.requestCount < StaleMaxRequests

\* C25: the delay is the only suspension point and does not block: while
\* handlers are suspended in their delay a new request can be taken; a
\* handler's entry step runs gates 1-3 in one piece and either answers or
\* suspends its own request, leaving the suspended handlers alone; a resumption
\* runs the rest of one suspended handler in one piece, answers that handler's
\* request and takes no new request.
C25_DelayDoesNotBlock ==
  [][ /\ C25_OnlyDelayedSuspended => ENABLED helloHttp(Stale)
      /\ HandlerStep
         => \/ res'.status # 0 /\ pending' = pending
            \/ /\ res' = Awaiting(res'.req)
               /\ Len(pending') = Len(pending) + 1
               /\ SubSeq(pending', 1, Len(pending)) = pending
               /\ pending'[Len(pending')].req = res'.req
               /\ pending'[Len(pending')].requestStart = now
      /\ ResumeStep
         => /\ serviceState'.requestCount = serviceState.requestCount
            /\ res'.status # 0
            /\ \E i \in 1 .. Len(pending) :
                 /\ res'.req = pending[i].req
                 /\ pending[i].requestStart + pending[i].delay <= now
                 /\ pending' = SubSeq(pending, 1, i - 1)
                                 \o SubSeq(pending, i + 1, Len(pending)) ]_vars

\* while the first request is suspended in its delay, the second has been
\* processed from entry to its 200 response
C25_Witness ==
  /\ Len(pending) = 1
  /\ pending[1].delay > 0
  /\ pending[1].requestStart + pending[1].delay > now
  /\ serviceState.requestCount = 2
  /\ serviceState.successCount = 1
  /\ res.status = 200

\* ---------------------------------------------------------------- C26
\* a handler is suspended whose delay runs out at time d
C26_SuspendedUntil(d) ==
  \E i \in 1 .. Len(pending) : pending[i].requestStart + pending[i].delay = d

\* C26: every request gets exactly one response, after at most one delay and
\* with no retry: a handler's entry step either answers or suspends the
\* request once, a resumption answers it and does not suspend it again, and a
\* suspended handler is eventually resumed (within the time explored). Every
\* failure that is recorded is reported to the caller with an error status and
\* an error_type.
\* Violated: a rejection whose res.status(429) throws (line 272, outside the
\* try block), and any answer sent through a res that throws again in the
\* catch block (line 564), leave the request with its failure recorded and no
\* response at all.
C26_OneResponseEach ==
  /\ [][ /\ HandlerStep
            => \/ res'.status # 0 /\ Len(pending') = Len(pending)
               \/ res' = Awaiting(res'.req) /\ Len(pending') = Len(pending) + 1
         /\ ResumeStep
            => /\ res'.status # 0
               /\ Len(pending') = Len(pending) - 1
               /\ serviceState'.requestCount = serviceState.requestCount
         /\ (HandlerStep \/ ResumeStep)
            => /\ res'.status >= 400 <=> res'.error_type # "none"
               /\ serviceState'.errorCount > serviceState.errorCount
                  => res'.status >= 400 ]_vars
  /\ \A d \in 1 .. SendsMaxTime :
       C26_SuspendedUntil(d) ~> (now >= d /\ ~ C26_SuspendedUntil(d))

\* ---------------------------------------------------------------- C27
\* the four bands of [0, 1), in units of 1/10000, as the claim gives them
C27_InBand(r) ==
  [ server_error |-> r < serverErrorChance,
    client_error |-> serverErrorChance <= r
                     /\ r < serverErrorChance + clientErrorChance,
    timeout |-> serverErrorChance + clientErrorChance <= r
                /\ r < serverErrorChance + clientErrorChance + timeoutChance,
    none |-> serverErrorChance + clientErrorChance + timeoutChance <= r ]

\* the draws at the two ends of every band, with those the runs make
C27_Draws ==
  ErrorDraws \cup
  { 0, serverErrorChance - 1, serverErrorChance,
    serverErrorChance + clientErrorChance - 1,
    serverErrorChance + clientErrorChance,
    serverErrorChance + clientErrorChance + timeoutChance - 1,
    serverErrorChance + clientErrorChance + timeoutChance,
    baseSuccessRate, 9999 }

\* C27: every draw lies in exactly one of the four bands, simulateError
\* classifies it by its band alone, and the status is that of the kind (none:
\* no error); an injected error that is sent is the one of the band of a draw.
C27_BandsPartition ==
  /\ \A r \in C27_Draws :
       LET e == simulateError(r) IN
       /\ Cardinality({ k \in DOMAIN C27_InBand(r) : C27_InBand(r)[k] }) = 1
       /\ e.type \in DOMAIN C27_InBand(r)
       /\ C27_InBand(r)[e.type]
       /\ e.status = CASE e.type = "server_error" -> 500
                       [] e.type = "client_error" -> 400
                       [] e.type = "timeout" -> 408
                       [] OTHER -> 0
  /\ res.error_type \in {"server_error", "client_error", "timeout"}
     => \E r \in ErrorDraws :
          /\ C27_InBand(r)[res.error_type]
          /\ simulateError(r).status = res.status

\* a request whose draw fell in the third band was answered 408 timeout
C27_Witness ==
  /\ res.error_type = "timeout" /\ res.status = 408
  /\ serviceState.errorCount >= 1

\* ---------------------------------------------------------------- C28
\* the step updates the average by the claim's rule for a request completed
\* with the given response time: avg' = (avg * (n - 1) + responseTime) / n, n
\* the total count
C28_MeanStep(responseTime) ==
  LET avg == serviceState.averageResponseTime
      avgNew == serviceState'.averageResponseTime
      n == serviceState'.requestCount
  IN avgNew.num * avg.den * n = avgNew.den * (avg.num * (n - 1) + responseTime * avg.den)

\* C28: each completed request, success or failure, updates the running
\* average response time once by avg' = (avg*(n-1) + responseTimeMs)/n.
C28_AverageOverAllRequests ==
  [][ /\ (HandlerStep /\ res'.status # 0) => C28_MeanStep(0)
      /\ ResumeStep
         => \E i \in 1 .. Len(pending) :
              /\ pending' = SubSeq(pending, 1, i - 1)
                              \o SubSeq(pending, i + 1, Len(pending))
              /\ res'.req = pending[i].req
              /\ C28_MeanStep(now - pending[i].requestStart) ]_vars

\* ---------------------------------------------------------------- C29
\* the step answers a request that passed the pipeline (its success is
\* recorded) with unexpected_error: the exception was thrown in the dispatch
C29_FaultInDispatch ==
  /\ ResumeStep
  /\ serviceState'.successCount = serviceState.successCount + 1
  /\ res'.error_type = "unexpected_error"

\* C29: an exception thrown in the dispatch of a request that passed the
\* pipeline does not escape the handler: the handler completes, the request is
\* answered 500 with error_type unexpected_error in an error body, and the
\* exception is recorded as one failure (one timestamp in the error window,
\* one more failure counted). It comes second after the validation error of a
\* POST /hello without name whose 400 answer could not be sent, and is the only
\* entry of the window after a reset whose answer could not be sent. No
\* resumed handler lets an exception escape.
\* Violated: the catch block sends its 500 through the same res (line 564),
\* outside any try; when the exception of the dispatch came from a res that
\* throws again there, the failure is recorded, nothing is sent and the
\* exception escapes helloHttp.
C29_FaultIsAnswered ==
  [][ /\ ResumeStep
         => ( res'.status # 0 /\ res'.payload # "escaped" )
      /\ C29_FaultInDispatch
         => ( /\ Len(pending') = Len(pending) - 1
              /\ res'.status = 500 /\ res'.payload = "error"
              /\ \/ C12_Failures = 1
                 \/ /\ C12_Failures = 2
                    /\ C17_PostHello /\ ~ res'.req.bodyName
              /\ C12_Appended ) ]_vars

\* ---------------------------------------------------------------- C30
\* C30: routing matches the path with the query string stripped: a GET of
\* /health followed by a query string that passes the pipeline gets the
\* health/metrics payload.
C30_QueryStringStripped ==
  ( /\ res.req.method = "GET"
    /\ res.req.url = "/health?x=1"
    /\ res.status = 200 )
  => res.payload = "health"

\* ---------------------------------------------------------------- C31
\* a resumed handler that is not in a normal period and draws no error kind
C31_DropStep ==
  /\ ResumeStep
  /\ drawn'.error # NotDrawn
  /\ simulateError(drawn'.error).type = "none"

\* C31: a request that passes the three gates, is not in a normal period and
\* draws no error kind makes one more draw; it is answered 504 network_failure
\* and recorded as a failure (not as a success) exactly when that draw exceeds
\* baseSuccessRate, and is recorded as a success otherwise; network_failure is
\* sent in no other case.
C31_DropAboveSuccessRate ==
  [][ /\ C31_DropStep =>
           /\ drawn'.drop # NotDrawn
           /\ IF drawn'.drop > baseSuccessRate
              THEN /\ res'.status = 504
                   /\ res'.error_type = "network_failure"
                   /\ serviceState'.errorCount = serviceState.errorCount + 1
                   /\ serviceState'.successCount = serviceState.successCount
                   /\ errorWindow' = Append(errorWindow, now)
              ELSE /\ res'.error_type # "network_failure"
                   /\ res'.status # 504
                   /\ serviceState'.successCount = serviceState.successCount + 1
      /\ ( (HandlerStep \/ ResumeStep) /\ res'.error_type = "network_failure" )
           => C31_DropStep
    ]_vars

\* a request was dropped on a draw above baseSuccessRate after another succeeded
C31_Witness ==
  /\ res.status = 504
  /\ res.error_type = "network_failure"
  /\ drawn.drop > baseSuccessRate
  /\ simulateError(drawn.error).type = "none"
  /\ serviceState.successCount >= 1
  /\ serviceState.errorCount = 1

\* ---------------------------------------------------------------- C32
\* the breaker was closed by recordSuccess() (the reset endpoint clears the open
\* timestamp) and every failure in the window was recorded before that close:
\* its timestamp is not after the last opening
C32_ClosedWithoutNewFailure ==
  /\ circuitBreakerState = "CLOSED"
  /\ circuitBreakerOpenTime # 0
  /\ \A i \in 1 .. Len(errorWindow) : errorWindow[i] <= circuitBreakerOpenTime

\* C32: once the breaker has closed from HALF_OPEN it does not open again
\* without a new failure: a request that reaches the breaker gate after the
\* close, with no failure recorded since, is admitted.
C32_StaysClosedWithoutFailure ==
  [][ ( /\ HandlerStep
        /\ C32_ClosedWithoutNewFailure
        /\ ReachedBreakerGate )
      => ( /\ ~ RejectedByBreaker
           /\ circuitBreakerState' = "CLOSED" )
    ]_vars

\* ---------------------------------------------------------------- C33
\* C33: while the breaker is OPEN no step changes the open timestamp, and the
\* only change of state is to HALF_OPEN, made by a request that reaches the
\* breaker gate once circuitBreakerRecovery has elapsed; every such request makes
\* it. The failures recorded while OPEN, the breaker's own rejections included,
\* extend nothing, so with requests that keep arriving an OPEN breaker
\* eventually becomes HALF_OPEN (or the requests of the run are used up).
C33_OpenEventuallyHalfOpen ==
  /\ [][ circuitBreakerState = "OPEN" =>
           /\ circuitBreakerOpenTime' = circuitBreakerOpenTime
           /\ circuitBreakerState' \in {"OPEN", "HALF_OPEN"}
           /\ circuitBreakerState' = "HALF_OPEN" <=>
                ( /\ HandlerStep
                  /\ ReachedBreakerGate
                  /\ now - circuitBreakerOpenTime >= circuitBreakerRecovery )
           /\ ( serviceState'.errorCount > serviceState.errorCount
                => circuitBreakerState' = "OPEN" )
       ]_vars
  /\ circuitBreakerState = "OPEN" ~>
       ( \/ circuitBreakerState = "HALF_OPEN"
         \/ serviceState.requestCount = RecoveryMaxRequests )

\* the breaker became HALF_OPEN exactly circuitBreakerRecovery after it opened,
\* although a failure was recorded in between, while it was OPEN
C33_Witness ==
  /\ circuitBreakerState = "HALF_OPEN"
  /\ now = circuitBreakerOpenTime + circuitBreakerRecovery
  /\ \E i \in 1 .. Len(errorWindow) :
       /\ errorWindow[i] > circuitBreakerOpenTime
       /\ errorWindow[i] < now

\* ---------------------------------------------------------------- C34
\* what the three gates answer to request r at time t in state g, when no
\* outage is drawn for it
C34_GateAnswer(g, r, t) ==
  LET rl == checkRateLimit(g, r.ip, t)
      av == checkServiceAvailability(rl.g, t, outageChance, minOutageDuration)
  IN IF rl.ret THEN "rate_limit"
     ELSE IF ~ av.ret THEN "service_unavailable"
     ELSE IF isCircuitBreakerOpen(av.g, t).ret THEN "circuit_breaker_open"
     ELSE "admitted"

\* C34, as stated: a denied request of an over-limit client changes nothing for
\* the other clients: whatever the gates would answer to a request of another
\* client before the denied request, they answer after it.
C34_DeniedInvisibleToOthers ==
  [][ ( HandlerStep /\ res'.error_type = "rate_limit" ) =>
        \A r \in Rate.requests :
          r.ip # res'.req.ip =>
            C34_GateAnswer(Globals', r, now) = C34_GateAnswer(Globals, r, now)
    ]_vars

\* C34: the rate limiter's state is per client: a request changes no other
\* client's rate-limit entry, so the limiter's decision for the other clients is
\* the same before and after it, however many requests of the client were
\* denied. A denied request changes, besides its client's entry, the shared
\* request and failure counters and the shared error window.
C34_LimiterStatePerClient ==
  [][ HandlerStep =>
        /\ \A c \in Clients :
             c # res'.req.ip =>
               /\ rateLimitMap'[c] = rateLimitMap[c]
               /\ checkRateLimit(Globals', c, now).ret
                    = checkRateLimit(Globals, c, now).ret
        /\ res'.error_type = "rate_limit" =>
             /\ rateLimitMap'[res'.req.ip].start = rateLimitMap[res'.req.ip].start
             /\ serviceState' = [serviceState EXCEPT !.requestCount = @ + 1,
                                                     !.errorCount = @ + 1]
             /\ errorWindow' = Append(errorWindow, now)
    ]_vars

\* a client was denied, and after that the other client was admitted by the limiter
C34_Witness ==
  \E i, j \in 1 .. Len(arrivals) :
    /\ i < j
    /\ arrivals[i].ip # arrivals[j].ip
    /\ arrivals[i].limited
    /\ ~ arrivals[j].limited

\* ---------------------------------------------------------------- C35
\* the step resumes the suspended handler pending[i]
C35_Resumes(i) ==
  /\ ResumeStep
  /\ pending' = SubSeq(pending, 1, i - 1) \o SubSeq(pending, i + 1, Len(pending))

\* the handler passed the breaker gate in the present HALF_OPEN episode: not
\* before circuitBreakerRecovery had elapsed since the last opening
C35_InEpisode(h) ==
  h.requestStart >= circuitBreakerOpenTime + circuitBreakerRecovery

\* C35: for handlers whose delay is less than circuitBreakerRecovery (all of
\* them when maxSlowDelay < circuitBreakerRecovery, a delay being at most
\* maxSlowDelay on the ticks of the clock): a resumed handler that
\* raises the half-open counter or closes the breaker passed the breaker gate
\* in the present HALF_OPEN episode; a handler admitted before the breaker last
\* opened resumes while the breaker is still OPEN and leaves the breaker as it is.
C35_OnlyProbesOfTheEpisodeCount ==
  [][ \A i \in 1 .. Len(pending) :
        ( C35_Resumes(i) /\ pending[i].delay < circuitBreakerRecovery ) =>
          /\ ( \/ halfOpenAttempts' # halfOpenAttempts
               \/ ( circuitBreakerState = "HALF_OPEN"
                    /\ circuitBreakerState' = "CLOSED" ) )
             => ( circuitBreakerState = "HALF_OPEN" /\ C35_InEpisode(pending[i]) )
          /\ ( /\ circuitBreakerState \in {"OPEN", "HALF_OPEN"}
               /\ ~ C35_InEpisode(pending[i]) )
             => ( /\ circuitBreakerState = "OPEN"
                  /\ circuitBreakerState' = "OPEN"
                  /\ circuitBreakerOpenTime' = circuitBreakerOpenTime
                  /\ halfOpenAttempts' = halfOpenAttempts )
    ]_vars

\* a handler admitted at time 1, before the breaker opened at time 1, was
\* suspended for a delay of 1 and has succeeded at time 2 with the breaker OPEN
C35_Witness ==
  /\ circuitBreakerState = "OPEN"
  /\ circuitBreakerOpenTime = 1
  /\ now = 2
  /\ res.status = 200
  /\ serviceState.successCount = 1
  /\ halfOpenAttempts = 0

\* ---------------------------------------------------------------- C36
\* C36: the half-open counter is between 0 and circuitBreakerHalfOpenRequests - 1
\* and is nonzero only while the breaker is HALF_OPEN; the open timestamp is set
\* whenever the breaker is OPEN or HALF_OPEN.
C36_BreakerVariablesConsistent ==
  /\ halfOpenAttempts \in 0 .. (circuitBreakerHalfOpenRequests - 1)
  /\ halfOpenAttempts # 0 => circuitBreakerState = "HALF_OPEN"
  /\ circuitBreakerState \in {"OPEN", "HALF_OPEN"} => circuitBreakerOpenTime # 0

\* all probes but one have succeeded and the breaker is still HALF_OPEN, with
\* the time of its opening kept
C36_Witness ==
  /\ circuitBreakerState = "HALF_OPEN"
  /\ halfOpenAttempts = circuitBreakerHalfOpenRequests - 1
  /\ circuitBreakerOpenTime # 0
  /\ now >= circuitBreakerOpenTime + circuitBreakerRecovery
  /\ serviceState.successCount >= halfOpenAttempts

\* ---------------------------------------------------------------- C37
\* C37: a denied request leaves the start of its client's rate-limit window
\* where it is; the start changes only when the window is reset, by a request
\* that arrives more than rateLimitWindowMs after it (or is the client's first),
\* and that request is admitted by the limiter with a count of 1, however many
\* requests of the client were denied in between.
C37_DeniedDoNotExtendWindow ==
  [][ HandlerStep =>
        LET ip == res'.req.ip
            entry == rateLimitMap[ip]
            elapsed == entry # NoEntry /\ now - entry.start > rateLimitWindowMs
        IN /\ res'.error_type = "rate_limit" =>
                /\ rateLimitMap'[ip].start = entry.start
                /\ rateLimitMap'[ip].count = entry.count + 1
           /\ rateLimitMap'[ip].start # entry.start =>
                ( entry = NoEntry \/ elapsed )
           /\ elapsed =>
                /\ res'.error_type # "rate_limit"
                /\ rateLimitMap'[ip] = [count |-> 1, start |-> now]
    ]_vars

\* a client was denied inside its window, and its first request after the window
\* was admitted
C37_Witness ==
  \E i, j \in 1 .. Len(arrivals) :
    /\ i < j
    /\ arrivals[i].ip = arrivals[j].ip
    /\ arrivals[i].limited
    /\ ~ arrivals[j].limited
    /\ rateLimitMap[arrivals[j].ip] = [count |-> 1, start |-> arrivals[j].t]
    /\ arrivals[j].t > arrivals[i].t

\* ---------------------------------------------------------------- C38
\* the step sends an error response
C38_SendsError ==
  (HandlerStep \/ ResumeStep) /\ res'.status >= 400

\* C38: the failure counter goes up by exactly one in every step that sends an
\* error response (a gate rejection, an injected error, a dropped request, a
\* validation error, an unexpected error) and is changed by no other step.
\* Violated: an error answer whose res.status(..).json(..) throws inside the try
\* block has its failure recorded, and the catch block records a second one
\* for the one 500 response it sends; outside the try block (rate limit) the
\* failure stays recorded and no response is sent.
C38_FailuresAreErrorResponses ==
  [][ serviceState'.errorCount =
        serviceState.errorCount + (IF C38_SendsError THEN 1 ELSE 0) ]_vars

\* ---------------------------------------------------------------- C39
\* C39: every circuit_breaker_open response has status 503, reports
\* circuit_breaker_state OPEN and a recovery_time_remaining between 0 and
\* circuitBreakerRecovery (the unit of the model's clock stands for the second
\* of the report).
C39_RejectionReportsOpen ==
  res.error_type = "circuit_breaker_open" =>
    /\ res.status = 503
    /\ res.circuit_breaker_state = "OPEN"
    /\ res.recovery_time_remaining >= 0
    /\ res.recovery_time_remaining <= circuitBreakerRecovery
    /\ circuitBreakerState = "OPEN"

\* a request was rejected by a breaker that had been OPEN for a while: less
\* than the whole recovery time remains
C39_Witness ==
  /\ res.error_type = "circuit_breaker_open"
  /\ res.circuit_breaker_state = "OPEN"
  /\ res.recovery_time_remaining > 0
  /\ res.recovery_time_remaining < circuitBreakerRecovery
  /\ res.recovery_time_remaining = circuitBreakerRecovery - (now - circuitBreakerOpenTime)

\* ---------------------------------------------------------------- C40
\* C40: the service is marked unhealthy exactly when an outage end time is set
\* (and the start of the outage is set exactly then, too).
C40_UnhealthyIffOutageSet ==
  /\ serviceState.isHealthy = FALSE <=> serviceState.outageEndTime # 0
  /\ serviceState.outageEndTime # 0 <=> serviceState.lastOutageStart # 0

\* an outage has run out and no request has come since: the end time is still
\* set and the service still marked unhealthy
C40_Witness ==
  /\ ~ serviceState.isHealthy
  /\ serviceState.outageEndTime # 0
  /\ now >= serviceState.outageEndTime
  /\ res.error_type = "service_unavailable"

====
